---- MODULE Spec2Model ----
(***************************************************************************)
(* Country rule validation engine of the credit request API.               *)
(*                                                                         *)
(* Conventions of the model:                                               *)
(*  - a Python str that the code inspects character by character (an       *)
(*    identity document, a document type label) is a sequence of           *)
(*    one-character strings; a str that is only built and passed on (an    *)
(*    error message) is a TLA+ string;                                     *)
(*  - Optional[T] is a sequence of length at most one: <<>> is None;       *)
(*  - a Python float is an IEEE 754 binary64 value.  requested_amount and  *)
(*    monthly_income are integer valued and given as integers;             *)
(*    max_percentage is given in thousandths (30000 is the float 30.0,     *)
(*    29999 the float nearest to 29.999); a value produced by round(x, 2)  *)
(*    is given in hundredths (4000 is 40.0).                               *)
(***************************************************************************)
EXTENDS Integers, Sequences, FiniteSets, Bags, TLC

(***************************************************************************)
(* IEEE 754 binary64 arithmetic, as far as validate_country_rules uses it: *)
(* the division of two integer valued floats, the multiplication by 100,   *)
(* the comparison, and round(x, 2).  A positive float is                   *)
(* [m |-> 53 bits, most significant first and m[1] = 1, e |-> exponent],   *)
(* of value 0.m1 m2 ... m53 * 2^e.                                         *)
(***************************************************************************)
MantBits == 53
LimbBits == 10
LimbBase == 1024
FracLimbs == 9

RECURSIVE Bits(_)
Bits(n) == IF n = 0 THEN <<>> ELSE Append(Bits(n \div 2), n % 2)

RECURSIVE BitsToInt(_)
BitsToInt(b) ==
    IF b = <<>> THEN 0 ELSE 2 * BitsToInt(SubSeq(b, 1, Len(b) - 1)) + b[Len(b)]

Zeros(n) == [i \in 1..n |-> 0]

StripZeros(b) ==
    IF \A i \in 1..Len(b) : b[i] = 0 THEN <<>>
    ELSE LET k == CHOOSE i \in 1..Len(b) : b[i] = 1 /\ \A j \in 1..(i - 1) : b[j] = 0
         IN  SubSeq(b, k, Len(b))

\* A number held as limbs of LimbBits bits keeps the recursions short.
LimbsToBits(l) ==
    [n \in 1..(Len(l) * LimbBits) |->
        (l[((n - 1) \div LimbBits) + 1] \div (2 ^ (LimbBits - 1 - ((n - 1) % LimbBits)))) % 2]

BitsToLimbs(b) ==
    LET pb == Zeros((LimbBits - (Len(b) % LimbBits)) % LimbBits) \o b
    IN  [i \in 1..(Len(pb) \div LimbBits) |->
            BitsToInt(SubSeq(pb, (i - 1) * LimbBits + 1, i * LimbBits))]

\* The first n limbs of the fraction of a / d, and the remainder left.
RECURSIVE LongDiv(_, _, _)
LongDiv(a, d, n) ==
    IF n = 0 THEN [q |-> <<>>, r |-> a % d]
    ELSE LET prev == LongDiv(a, d, n - 1)
         IN  [q |-> Append(prev.q, (prev.r * LimbBase) \div d),
              r |-> (prev.r * LimbBase) % d]

RECURSIVE MulLimbs(_, _)
MulLimbs(l, k) ==
    IF l = <<>> THEN [q |-> <<>>, c |-> 0]
    ELSE LET rest == MulLimbs(Tail(l), k)
             t    == l[1] * k + rest.c
         IN  [q |-> <<t % LimbBase>> \o rest.q, c |-> t \div LimbBase]

MulBits(b, k) ==
    LET p == MulLimbs(BitsToLimbs(b), k)
    IN  StripZeros(Bits(p.c) \o LimbsToBits(p.q))

IncBits(b) ==
    IF \A i \in 1..Len(b) : b[i] = 1 THEN <<1>> \o Zeros(Len(b))
    ELSE LET k == CHOOSE i \in 1..Len(b) : b[i] = 0 /\ \A j \in (i + 1)..Len(b) : b[j] = 1
         IN  [i \in 1..Len(b) |-> IF i < k THEN b[i] ELSE IF i = k THEN 1 ELSE 0]

FZero == [m |-> <<>>, e |-> 0]

\* Round 0.b1 b2 ... * 2^e (b[1] = 1, sticky: nonzero bits were cut off
\* already) to the nearest float, ties to even.
FRound(b, e, sticky) ==
    IF Len(b) <= MantBits THEN [m |-> b \o Zeros(MantBits - Len(b)), e |-> e]
    ELSE LET top   == SubSeq(b, 1, MantBits)
             guard == b[MantBits + 1]
             rest  == sticky \/ \E i \in (MantBits + 2)..Len(b) : b[i] = 1
             up    == guard = 1 /\ (rest \/ top[MantBits] = 1)
             inc   == IncBits(top)
         IN  IF ~up THEN [m |-> top, e |-> e]
             ELSE IF Len(inc) > MantBits THEN [m |-> SubSeq(inc, 1, MantBits), e |-> e + 1]
             ELSE [m |-> inc, e |-> e]

\* float(a) / float(d) for integers a >= 0 and d > 0; also the float that a
\* decimal literal a/d denotes.
FDiv(a, d) ==
    IF a = 0 THEN FZero
    ELSE LET res == LongDiv(a, d, FracLimbs)
             q   == StripZeros(Bits(a \div d) \o LimbsToBits(res.q))
         IN  FRound(q, Len(q) - FracLimbs * LimbBits, res.r /= 0)

\* x * float(k) for a float x >= 0 and a small integer k >= 0.
FMul(x, k) ==
    IF x.m = <<>> \/ k = 0 THEN FZero
    ELSE LET p == MulBits(x.m, k)
         IN  FRound(p, x.e - MantBits + Len(p), FALSE)

BitsLess(a, b) ==
    \E i \in 1..Len(a) : a[i] < b[i] /\ \A j \in 1..(i - 1) : a[j] = b[j]

\* x > y for floats x, y >= 0.
FGt(x, y) ==
    IF x.m = <<>> THEN FALSE
    ELSE IF y.m = <<>> THEN TRUE
    ELSE IF x.e /= y.e THEN x.e > y.e
    ELSE BitsLess(y.m, x.m)

\* round(x, 2), in hundredths: the exact value of x rounded half to even.
Round2(x) ==
    IF x.m = <<>> THEN 0
    ELSE LET p     == MulBits(x.m, 100)
             nint  == x.e - MantBits + Len(p)
             pp    == IF nint < 0 THEN Zeros(-nint) \o p ELSE p
             ni    == IF nint < 0 THEN 0 ELSE nint
             ip    == BitsToInt(SubSeq(pp, 1, ni))
             guard == pp[ni + 1]
             rest  == \E i \in (ni + 2)..Len(pp) : pp[i] = 1
         IN  IF guard = 1 /\ (rest \/ ip % 2 = 1) THEN ip + 1 ELSE ip

\* The float max_percentage given in thousandths.
MaxPercentageFloat(mp) == FDiv(mp, 1000)

(***************************************************************************)
(* str(float), as the f-strings of the error messages render a float.      *)
(***************************************************************************)
DigitStr == <<"0", "1", "2", "3", "4", "5", "6", "7", "8", "9">>

RECURSIVE NatToStr(_)
NatToStr(n) == IF n < 10 THEN DigitStr[n + 1] ELSE NatToStr(n \div 10) \o DigitStr[(n % 10) + 1]

RECURSIVE PadDigits(_, _)
PadDigits(f, width) ==
    IF width = 0 THEN "" ELSE PadDigits(f \div 10, width - 1) \o DigitStr[(f % 10) + 1]

\* the digits of the fraction f / 10^width, trailing zeros dropped, one kept
RECURSIVE FracToStr(_, _)
FracToStr(f, width) ==
    IF width > 1 /\ f % 10 = 0 THEN FracToStr(f \div 10, width - 1) ELSE PadDigits(f, width)

\* str of the float nearest to n / 10^width, n >= 0
DecimalToStr(n, width) ==
    NatToStr(n \div (10 ^ width)) \o "." \o FracToStr(n % (10 ^ width), width)

\* str of an integer valued float
IntFloatToStr(n) == IF n < 0 THEN "-" \o NatToStr(-n) \o ".0" ELSE NatToStr(n) \o ".0"

(***************************************************************************)
(* Characters and the str methods the validators use.                      *)
(***************************************************************************)
LowerChars ==
    <<"a", "b", "c", "d", "e", "f", "g", "h", "i", "j", "k", "l", "m", "n", "o", "p",
      "q", "r", "s", "t", "u", "v", "w", "x", "y", "z", "é", "í">>
UpperChars ==
    <<"A", "B", "C", "D", "E", "F", "G", "H", "I", "J", "K", "L", "M", "N", "O", "P",
      "Q", "R", "S", "T", "U", "V", "W", "X", "Y", "Z", "É", "Í">>
DigitChars == {"0", "1", "2", "3", "4", "5", "6", "7", "8", "9"}
AsciiUpper ==
    {"A", "B", "C", "D", "E", "F", "G", "H", "I", "J", "K", "L", "M", "N", "O", "P",
     "Q", "R", "S", "T", "U", "V", "W", "X", "Y", "Z"}
\* A character is a string of length 1, or, when a string of a module cannot
\* hold it, its name: "U+" and its code point in hexadecimal ("U+0178" is the
\* one character U+0178).  A str is the sequence of its characters.

\* the 29 characters str.strip() and \s take for whitespace: U+0009 to U+000D,
\* U+001C to U+0020, U+0085, U+00A0, U+1680, U+2000 to U+200A, U+2028, U+2029,
\* U+202F, U+205F and U+3000
Whitespace ==
    {"\t", "\n", "", "\f", "\r", "", "", "",
     "", " ", "", " ", " ", "U+2000", "U+2001", "U+2002",
     "U+2003", "U+2004", "U+2005", "U+2006", "U+2007", "U+2008", "U+2009", "U+200A",
     "U+2028", "U+2029", "U+202F", "U+205F", "U+3000"}

\* str.upper() of one character, for every character it changes: the letters
\* of LowerChars become those of UpperChars and the characters of CASED_LOWER
\* those of CASED_UPPER at the same place.  OTHER_UPPER holds the others,
\* four fields of seven places for each: the character and the one to three
\* characters it becomes (SS for the sharp s), a field filled up with "_" and
\* a field of "_" alone being no character.
UpperCase ==
    LET CASED_LOWER ==
            "µàáâãäåæçèéêëìíîïðñòóôõöøùúûüýþƃƅƈƌƒƕƙơƣƥƨƭưƴƶƹƽƿǅǆǈǉǋǌǎǐǒǔǖ"
            \o "ǘǚǜǝǟǡǣǥǧǩǫǭǯǲǳǵǹǻǽǿʀʂʃʇʈʊʋʒʝʞάέήίαβγδεζηθικλμνξοπρςστυφχψωϊ"
            \o "ϋόύώϐϑϕϖϗϙϛϝϟϡϣϥϧϩϫϭϯϰϱϲϵϸϻҁҋҍҏґғҕҗҙқҝҟҡңҥҧҩҫҭүұҳҵҷҹһҽҿӂӄӆӈӊ"
            \o "ӌӎӏӑӓӕӗәӛӝӟӡӣӥӧөӫӭӯӱӳӵӷӹӻӽӿაბგდევზთიკლმნოპჟრსტუფქღყშჩცძწჭხჯჰ"
            \o "ჱჲჳჴჵჶჷჸჹჺჽჾჿᏸᏹᏺᏻᏼᏽᶎẁẃẅẇẉẋẍẏẑẓẕạảấầẩẫậắằẳẵặẹẻẽếềểễệỉịọỏốồổỗộ"
            \o "ớờởỡợụủứừửữựỳỵỷỹỻỽỿᾰᾱιῐῑῠῡῥↄⓐⓑⓒⓓⓔⓕⓖⓗⓘⓙⓚⓛⓜⓝⓞⓟⓠⓡⓢⓣⓤⓥⓦⓧⓨⓩⲁⲃⲅⲇⲉⲋ"
            \o "ⲍⲏⲑⲓⲕⲗⲙⲛⲝⲟⲡⲣⲥⲧⲩⲫⲭⲯⲱⲳⲵⲷⲹⲻⲽⲿⳁⳃⳅⳇⳉⳋⳍⳏⳑⳓⳕⳗⳙⳛⳝⳟⳡⳣⳬⳮⳳꚁꚃꚅꚇꚉꚋꚍꚏꚑꚓꚕꚗꚙ"
            \o "ꚛꞁꞃꞅꞇꞌꞑꞓꞔꞗꞙꞛꞝꞟꞡꞣꞥꞧꞩꞵꞷꞹꞻꞽꞿꟁꟃꟈꟊꟑꟗꟙꟶꮀꮁꮂꮃꮄꮅꮆꮇꮈꮉꮊꮋꮌꮍꮎꮏꮐꮑꮒꮓꮔꮕꮖꮗꮘꮙꮚ"
            \o "ꮛꮜꮝꮞꮟꮠꮡꮢꮣꮤꮥꮦꮧꮨꮩꮪꮫꮬꮭꮮꮯꮰꮱꮲꮳꮴꮵꮶꮷꮸꮹꮺꮻꮼꮽꮾꮿ"
        CASED_UPPER ==
            "ΜÀÁÂÃÄÅÆÇÈÉÊËÌÍÎÏÐÑÒÓÔÕÖØÙÚÛÜÝÞƂƄƇƋƑǶƘƠƢƤƧƬƯƳƵƸƼǷǄǄǇǇǊǊǍǏǑǓǕ"
            \o "ǗǙǛƎǞǠǢǤǦǨǪǬǮǱǱǴǸǺǼǾƦꟅƩꞱƮƱƲƷꞲꞰΆΈΉΊΑΒΓΔΕΖΗΘΙΚΛΜΝΞΟΠΡΣΣΤΥΦΧΨΩΪ"
            \o "ΫΌΎΏΒΘΦΠϏϘϚϜϞϠϢϤϦϨϪϬϮΚΡϹΕϷϺҀҊҌҎҐҒҔҖҘҚҜҞҠҢҤҦҨҪҬҮҰҲҴҶҸҺҼҾӁӃӅӇӉ"
            \o "ӋӍӀӐӒӔӖӘӚӜӞӠӢӤӦӨӪӬӮӰӲӴӶӸӺӼӾᲐᲑᲒᲓᲔᲕᲖᲗᲘᲙᲚᲛᲜᲝᲞᲟᲠᲡᲢᲣᲤᲥᲦᲧᲨᲩᲪᲫᲬᲭᲮᲯᲰ"
            \o "ᲱᲲᲳᲴᲵᲶᲷᲸᲹᲺᲽᲾᲿᏰᏱᏲᏳᏴᏵꟆẀẂẄẆẈẊẌẎẐẒẔẠẢẤẦẨẪẬẮẰẲẴẶẸẺẼẾỀỂỄỆỈỊỌỎỐỒỔỖỘ"
            \o "ỚỜỞỠỢỤỦỨỪỬỮỰỲỴỶỸỺỼỾᾸᾹΙῘῙῨῩῬↃⒶⒷⒸⒹⒺⒻⒼⒽⒾⒿⓀⓁⓂⓃⓄⓅⓆⓇⓈⓉⓊⓋⓌⓍⓎⓏⲀⲂⲄⲆⲈⲊ"
            \o "ⲌⲎⲐⲒⲔⲖⲘⲚⲜⲞⲠⲢⲤⲦⲨⲪⲬⲮⲰⲲⲴⲶⲸⲺⲼⲾⳀⳂⳄⳆⳈⳊⳌⳎⳐⳒⳔⳖⳘⳚⳜⳞⳠⳢⳫⳭⳲꚀꚂꚄꚆꚈꚊꚌꚎꚐꚒꚔꚖꚘ"
            \o "ꚚꞀꞂꞄꞆꞋꞐꞒꟄꞖꞘꞚꞜꞞꞠꞢꞤꞦꞨꞴꞶꞸꞺꞼꞾꟀꟂꟇꟉꟐꟖꟘꟵᎰᎱᎲᎳᎴᎵᎶᎷᎸᎹᎺᎻᎼᎽᎾᎿᏀᏁᏂᏃᏄᏅᏆᏇᏈᏉᏊ"
            \o "ᏋᏌᏍᏎᏏᏐᏑᏒᏓᏔᏕᏖᏗᏘᏙᏚᏛᏜᏝᏞᏟᏠᏡᏢᏣᏤᏥᏦᏧᏨᏩᏪᏫᏬᏭᏮᏯ"
        OTHER_UPPER ==
            "ß______S______S_____________ÿ______U+0178_______________U+0101_U+0100_______________U+0103_U+0102_______________U+0105_U+0104_______________U+0107_U+0106_______________U+0109_U+0108_______________U+010B_U+010A_______________U+010D_U+010C_______________U+010F_U+010E_______________U+0111_U+0110_______________U+0113_U+0112_______________U+0115_U+0114_______________U+0117_U+0116_______________U+0119_U+0118_______________U+011B_U+011A_______________U+011D_U+011C_______________U+011F_U+011E_______________U+0121_U+0120_______________U+0123_U+0122_______________U+0125_U+0124_______________U+0127_U+0126_______________U+0129_U+0128_______________U+012B_U+012A_______________U+012D_U+012C_______________U+012F_U+012E_______________U+0131_I____________________U+0133_U+0132_______________U+0135_U+0134_______________U+0137_U+0136_______________U+013A_U+0139_______________U+013C_U+013B_______________U+013E_U+013D_______________U+0140_U+013F_______________U+0142_U+0141_______________U+0144_U+0143_______________U+0146_U+0145_______________U+0148_U+0147_______________U+0149_ʼ______N_____________U+014B_U+014A_______________U+014D_U+014C_______________U+014F_U+014E_______________U+0151_U+0150_______________U+0153_U+0152_______________U+0155_U+0154_______________U+0157_U+0156_______________U+0159_U+0158_______________U+015B_U+015A_______________U+015D_U+015C_______________U+015F_U+015E_______________U+0161_U+0160_______________U+0163_U+0162_______________U+0165_U+0164_______________U+0167_U+0166_______________U+0169_U+0168_______________U+016B_U+016A_______________U+016D_U+016C_______________U+016F_U+016E_______________U+0171_U+0170_______________U+0173_U+0172_______________U+0175_U+0174_______________U+0177_U+0176_______________U+017A_U+0179_______________U+017C_U+017B_______________U+017E_U+017D_______________U+017F_S____________________ƀ______U+0243_______________ƚ______U+023D_______________ƞ______U+0220_______________ǰ______J______U+030C________U+0201_U+0200_______________U+0203_U+0202_______________U+0205_U+0204_______________U+0207_U+0206_______________U+0209_U+0208_______________U+020B_U+020A_______________U+020D_U+020C_______________U+020F_U+020E_______________U+0211_U+0210_______________U+0213_U+0212_______________U+0215_U+0214_______________U+0217_U+0216_______________U+0219_U+0218_______________U+021B_U+021A_______________U+021D_U+021C_______________U+021F_U+021E_______________U+0223_U+0222_______________U+0225_U+0224_______________U+0227_U+0226_______________U+0229_U+0228_______________U+022B_U+022A_______________U+022D_U+022C_______________U+022F_U+022E_______________U+0231_U+0230_______________U+0233_U+0232_______________U+023C_U+023B_______________U+023F_U+2C7E_______________U+0240_U+2C7F_______________U+0242_U+0241_______________U+0247_U+0246_______________U+0249_U+0248_______________U+024B_U+024A_______________U+024D_U+024C_______________U+024F_U+024E_______________U+0250_U+2C6F_______________U+0251_U+2C6D_______________U+0252_U+2C70_______________U+0253_Ɓ____________________U+0254_Ɔ____________________U+0256_Ɖ____________________U+0257_Ɗ____________________U+0259_Ə____________________U+025B_Ɛ____________________U+025C_Ɜ____________________U+0260_Ɠ____________________U+0261_Ɡ____________________U+0263_Ɣ____________________U+0265_Ɥ____________________U+0266_Ɦ____________________U+0268_Ɨ____________________U+0269_Ɩ____________________U+026A_Ɪ____________________U+026B_U+2C62_______________"
            \o "U+026C_Ɬ____________________U+026F_Ɯ____________________U+0271_U+2C6E_______________U+0272_Ɲ____________________U+0275_Ɵ____________________U+027D_U+2C64_______________ʉ______U+0244_______________ʌ______U+0245_______________U+0345_Ι____________________U+0371_U+0370_______________U+0373_U+0372_______________U+0377_U+0376_______________U+037B_Ͻ____________________U+037C_Ͼ____________________U+037D_Ͽ____________________ΐ______Ι______U+0308_U+0301_ΰ______Υ______U+0308_U+0301_ϳ______U+037F_______________U+0430_U+0410_______________U+0431_U+0411_______________U+0432_U+0412_______________U+0433_U+0413_______________U+0434_U+0414_______________U+0435_U+0415_______________U+0436_U+0416_______________U+0437_U+0417_______________U+0438_U+0418_______________U+0439_U+0419_______________U+043A_U+041A_______________U+043B_U+041B_______________U+043C_U+041C_______________U+043D_U+041D_______________U+043E_U+041E_______________U+043F_U+041F_______________U+0440_U+0420_______________U+0441_U+0421_______________U+0442_U+0422_______________U+0443_U+0423_______________U+0444_U+0424_______________U+0445_U+0425_______________U+0446_U+0426_______________U+0447_U+0427_______________U+0448_U+0428_______________U+0449_U+0429_______________U+044A_U+042A_______________U+044B_U+042B_______________U+044C_U+042C_______________U+044D_U+042D_______________U+044E_U+042E_______________U+044F_U+042F_______________U+0450_U+0400_______________U+0451_U+0401_______________U+0452_U+0402_______________U+0453_U+0403_______________U+0454_U+0404_______________U+0455_U+0405_______________U+0456_U+0406_______________U+0457_U+0407_______________U+0458_U+0408_______________U+0459_U+0409_______________U+045A_U+040A_______________U+045B_U+040B_______________U+045C_U+040C_______________U+045D_U+040D_______________U+045E_U+040E_______________U+045F_U+040F_______________U+0461_U+0460_______________U+0463_U+0462_______________U+0465_U+0464_______________U+0467_U+0466_______________U+0469_U+0468_______________U+046B_U+046A_______________U+046D_U+046C_______________U+046F_U+046E_______________U+0471_U+0470_______________U+0473_U+0472_______________U+0475_U+0474_______________U+0477_U+0476_______________U+0479_U+0478_______________U+047B_U+047A_______________U+047D_U+047C_______________U+047F_U+047E_______________U+0501_U+0500_______________U+0503_U+0502_______________U+0505_U+0504_______________U+0507_U+0506_______________U+0509_U+0508_______________U+050B_U+050A_______________U+050D_U+050C_______________U+050F_U+050E_______________U+0511_U+0510_______________U+0513_U+0512_______________U+0515_U+0514_______________U+0517_U+0516_______________U+0519_U+0518_______________U+051B_U+051A_______________U+051D_U+051C_______________U+051F_U+051E_______________U+0521_U+0520_______________U+0523_U+0522_______________U+0525_U+0524_______________U+0527_U+0526_______________U+0529_U+0528_______________U+052B_U+052A_______________U+052D_U+052C_______________U+052F_U+052E_______________U+0561_U+0531_______________U+0562_U+0532_______________U+0563_U+0533_______________U+0564_U+0534_______________U+0565_U+0535_______________U+0566_U+0536_______________U+0567_U+0537_______________U+0568_U+0538_______________U+0569_U+0539_______________U+056A_U+053A_______________U+056B_U+053B_______________U+056C_U+053C_______________U+056D_U+053D_______________U+056E_U+053E_______________U+056F_U+053F_______________U+0570_U+0540_______________U+0571_U+0541_______________"
            \o "U+0572_U+0542_______________U+0573_U+0543_______________U+0574_U+0544_______________U+0575_U+0545_______________U+0576_U+0546_______________U+0577_U+0547_______________U+0578_U+0548_______________U+0579_U+0549_______________U+057A_U+054A_______________U+057B_U+054B_______________U+057C_U+054C_______________U+057D_U+054D_______________U+057E_U+054E_______________U+057F_U+054F_______________ր______U+0550_______________ց______U+0551_______________ւ______U+0552_______________փ______U+0553_______________ք______U+0554_______________օ______U+0555_______________ֆ______U+0556_______________և______U+0535_U+0552________ᲀ______U+0412_______________ᲁ______U+0414_______________ᲂ______U+041E_______________ᲃ______U+0421_______________ᲄ______U+0422_______________ᲅ______U+0422_______________ᲆ______U+042A_______________ᲇ______U+0462_______________ᲈ______U+A64A_______________U+1D79_U+A77D_______________U+1D7D_U+2C63_______________U+1E01_U+1E00_______________U+1E03_U+1E02_______________U+1E05_U+1E04_______________U+1E07_U+1E06_______________U+1E09_U+1E08_______________U+1E0B_U+1E0A_______________U+1E0D_U+1E0C_______________U+1E0F_U+1E0E_______________U+1E11_U+1E10_______________U+1E13_U+1E12_______________U+1E15_U+1E14_______________U+1E17_U+1E16_______________U+1E19_U+1E18_______________U+1E1B_U+1E1A_______________U+1E1D_U+1E1C_______________U+1E1F_U+1E1E_______________U+1E21_U+1E20_______________U+1E23_U+1E22_______________U+1E25_U+1E24_______________U+1E27_U+1E26_______________U+1E29_U+1E28_______________U+1E2B_U+1E2A_______________U+1E2D_U+1E2C_______________U+1E2F_U+1E2E_______________U+1E31_U+1E30_______________U+1E33_U+1E32_______________U+1E35_U+1E34_______________U+1E37_U+1E36_______________U+1E39_U+1E38_______________U+1E3B_U+1E3A_______________U+1E3D_U+1E3C_______________U+1E3F_U+1E3E_______________U+1E41_U+1E40_______________U+1E43_U+1E42_______________U+1E45_U+1E44_______________U+1E47_U+1E46_______________U+1E49_U+1E48_______________U+1E4B_U+1E4A_______________U+1E4D_U+1E4C_______________U+1E4F_U+1E4E_______________U+1E51_U+1E50_______________U+1E53_U+1E52_______________U+1E55_U+1E54_______________U+1E57_U+1E56_______________U+1E59_U+1E58_______________U+1E5B_U+1E5A_______________U+1E5D_U+1E5C_______________U+1E5F_U+1E5E_______________U+1E61_U+1E60_______________U+1E63_U+1E62_______________U+1E65_U+1E64_______________U+1E67_U+1E66_______________U+1E69_U+1E68_______________U+1E6B_U+1E6A_______________U+1E6D_U+1E6C_______________U+1E6F_U+1E6E_______________U+1E71_U+1E70_______________U+1E73_U+1E72_______________U+1E75_U+1E74_______________U+1E77_U+1E76_______________U+1E79_U+1E78_______________U+1E7B_U+1E7A_______________U+1E7D_U+1E7C_______________U+1E7F_U+1E7E_______________ẖ______H______U+0331________ẗ______T______U+0308________ẘ______W______U+030A________ẙ______Y______U+030A________ẚ______A______ʾ_____________ẛ______U+1E60_______________U+1F00_U+1F08_______________U+1F01_U+1F09_______________U+1F02_U+1F0A_______________U+1F03_U+1F0B_______________U+1F04_U+1F0C_______________U+1F05_U+1F0D_______________U+1F06_U+1F0E_______________U+1F07_U+1F0F_______________U+1F10_U+1F18_______________U+1F11_U+1F19_______________U+1F12_U+1F1A_______________U+1F13_U+1F1B_______________U+1F14_U+1F1C_______________U+1F15_U+1F1D_______________U+1F20_U+1F28_______________U+1F21_U+1F29_______________U+1F22_U+1F2A_______________U+1F23_U+1F2B_______________U+1F24_U+1F2C_______________U+1F25_U+1F2D_______________"
            \o "U+1F26_U+1F2E_______________U+1F27_U+1F2F_______________U+1F30_U+1F38_______________U+1F31_U+1F39_______________U+1F32_U+1F3A_______________U+1F33_U+1F3B_______________U+1F34_U+1F3C_______________U+1F35_U+1F3D_______________U+1F36_U+1F3E_______________U+1F37_U+1F3F_______________U+1F40_U+1F48_______________U+1F41_U+1F49_______________U+1F42_U+1F4A_______________U+1F43_U+1F4B_______________U+1F44_U+1F4C_______________U+1F45_U+1F4D_______________U+1F50_Υ______U+0313________U+1F51_U+1F59_______________U+1F52_Υ______U+0313_U+0300_U+1F53_U+1F5B_______________U+1F54_Υ______U+0313_U+0301_U+1F55_U+1F5D_______________U+1F56_Υ______U+0313_U+0342_U+1F57_U+1F5F_______________U+1F60_U+1F68_______________U+1F61_U+1F69_______________U+1F62_U+1F6A_______________U+1F63_U+1F6B_______________U+1F64_U+1F6C_______________U+1F65_U+1F6D_______________U+1F66_U+1F6E_______________U+1F67_U+1F6F_______________U+1F70_Ὰ____________________U+1F71_Ά____________________U+1F72_Ὲ____________________U+1F73_Έ____________________U+1F74_Ὴ____________________U+1F75_Ή____________________U+1F76_Ὶ____________________U+1F77_Ί____________________U+1F78_Ὸ____________________U+1F79_Ό____________________U+1F7A_Ὺ____________________U+1F7B_Ύ____________________U+1F7C_Ὼ____________________U+1F7D_Ώ____________________ᾀ______U+1F08_Ι_____________ᾁ______U+1F09_Ι_____________ᾂ______U+1F0A_Ι_____________ᾃ______U+1F0B_Ι_____________ᾄ______U+1F0C_Ι_____________ᾅ______U+1F0D_Ι_____________ᾆ______U+1F0E_Ι_____________ᾇ______U+1F0F_Ι_____________ᾈ______U+1F08_Ι_____________ᾉ______U+1F09_Ι_____________ᾊ______U+1F0A_Ι_____________ᾋ______U+1F0B_Ι_____________ᾌ______U+1F0C_Ι_____________ᾍ______U+1F0D_Ι_____________ᾎ______U+1F0E_Ι_____________ᾏ______U+1F0F_Ι_____________ᾐ______U+1F28_Ι_____________ᾑ______U+1F29_Ι_____________ᾒ______U+1F2A_Ι_____________ᾓ______U+1F2B_Ι_____________ᾔ______U+1F2C_Ι_____________ᾕ______U+1F2D_Ι_____________ᾖ______U+1F2E_Ι_____________ᾗ______U+1F2F_Ι_____________ᾘ______U+1F28_Ι_____________ᾙ______U+1F29_Ι_____________ᾚ______U+1F2A_Ι_____________ᾛ______U+1F2B_Ι_____________ᾜ______U+1F2C_Ι_____________ᾝ______U+1F2D_Ι_____________ᾞ______U+1F2E_Ι_____________ᾟ______U+1F2F_Ι_____________ᾠ______U+1F68_Ι_____________ᾡ______U+1F69_Ι_____________ᾢ______U+1F6A_Ι_____________ᾣ______U+1F6B_Ι_____________ᾤ______U+1F6C_Ι_____________ᾥ______U+1F6D_Ι_____________ᾦ______U+1F6E_Ι_____________ᾧ______U+1F6F_Ι_____________ᾨ______U+1F68_Ι_____________ᾩ______U+1F69_Ι_____________ᾪ______U+1F6A_Ι_____________ᾫ______U+1F6B_Ι_____________ᾬ______U+1F6C_Ι_____________ᾭ______U+1F6D_Ι_____________ᾮ______U+1F6E_Ι_____________ᾯ______U+1F6F_Ι_____________ᾲ______Ὰ______Ι_____________ᾳ______Α______Ι_____________ᾴ______Ά______Ι_____________ᾶ______Α______U+0342________ᾷ______Α______U+0342_Ι______ᾼ______Α______Ι_____________ῂ______Ὴ______Ι_____________ῃ______Η______Ι_____________ῄ______Ή______Ι_____________ῆ______Η______U+0342________ῇ______Η______U+0342_Ι______ῌ______Η______Ι_____________ῒ______Ι______U+0308_U+0300_ΐ______Ι______U+0308_U+0301_ῖ______Ι______U+0342________ῗ______Ι______U+0308_U+0342_ῢ______Υ______U+0308_U+0300_ΰ______Υ______U+0308_U+0301_ῤ______Ρ______U+0313________ῦ______Υ______U+0342________ῧ______Υ______U+0308_U+0342_ῲ______Ὼ______Ι_____________ῳ______Ω______Ι_____________ῴ______Ώ______Ι_____________ῶ______Ω______U+0342________ῷ______Ω______U+0342_Ι______ῼ______Ω______Ι_____________U+214E_U+2132_______________U+2170_U+2160_______________"
            \o "U+2171_U+2161_______________U+2172_U+2162_______________U+2173_U+2163_______________U+2174_U+2164_______________U+2175_U+2165_______________U+2176_U+2166_______________U+2177_U+2167_______________U+2178_U+2168_______________U+2179_U+2169_______________U+217A_U+216A_______________U+217B_U+216B_______________U+217C_U+216C_______________U+217D_U+216D_______________U+217E_U+216E_______________U+217F_U+216F_______________U+2C30_U+2C00_______________U+2C31_U+2C01_______________U+2C32_U+2C02_______________U+2C33_U+2C03_______________U+2C34_U+2C04_______________U+2C35_U+2C05_______________U+2C36_U+2C06_______________U+2C37_U+2C07_______________U+2C38_U+2C08_______________U+2C39_U+2C09_______________U+2C3A_U+2C0A_______________U+2C3B_U+2C0B_______________U+2C3C_U+2C0C_______________U+2C3D_U+2C0D_______________U+2C3E_U+2C0E_______________U+2C3F_U+2C0F_______________U+2C40_U+2C10_______________U+2C41_U+2C11_______________U+2C42_U+2C12_______________U+2C43_U+2C13_______________U+2C44_U+2C14_______________U+2C45_U+2C15_______________U+2C46_U+2C16_______________U+2C47_U+2C17_______________U+2C48_U+2C18_______________U+2C49_U+2C19_______________U+2C4A_U+2C1A_______________U+2C4B_U+2C1B_______________U+2C4C_U+2C1C_______________U+2C4D_U+2C1D_______________U+2C4E_U+2C1E_______________U+2C4F_U+2C1F_______________U+2C50_U+2C20_______________U+2C51_U+2C21_______________U+2C52_U+2C22_______________U+2C53_U+2C23_______________U+2C54_U+2C24_______________U+2C55_U+2C25_______________U+2C56_U+2C26_______________U+2C57_U+2C27_______________U+2C58_U+2C28_______________U+2C59_U+2C29_______________U+2C5A_U+2C2A_______________U+2C5B_U+2C2B_______________U+2C5C_U+2C2C_______________U+2C5D_U+2C2D_______________U+2C5E_U+2C2E_______________U+2C5F_U+2C2F_______________U+2C61_U+2C60_______________U+2C65_U+023A_______________U+2C66_U+023E_______________U+2C68_U+2C67_______________U+2C6A_U+2C69_______________U+2C6C_U+2C6B_______________U+2C73_U+2C72_______________U+2C76_U+2C75_______________U+2D00_Ⴀ____________________U+2D01_Ⴁ____________________U+2D02_Ⴂ____________________U+2D03_Ⴃ____________________U+2D04_Ⴄ____________________U+2D05_Ⴅ____________________U+2D06_Ⴆ____________________U+2D07_Ⴇ____________________U+2D08_Ⴈ____________________U+2D09_Ⴉ____________________U+2D0A_Ⴊ____________________U+2D0B_Ⴋ____________________U+2D0C_Ⴌ____________________U+2D0D_Ⴍ____________________U+2D0E_Ⴎ____________________U+2D0F_Ⴏ____________________U+2D10_Ⴐ____________________U+2D11_Ⴑ____________________U+2D12_Ⴒ____________________U+2D13_Ⴓ____________________U+2D14_Ⴔ____________________U+2D15_Ⴕ____________________U+2D16_Ⴖ____________________U+2D17_Ⴗ____________________U+2D18_Ⴘ____________________U+2D19_Ⴙ____________________U+2D1A_Ⴚ____________________U+2D1B_Ⴛ____________________U+2D1C_Ⴜ____________________U+2D1D_Ⴝ____________________U+2D1E_Ⴞ____________________U+2D1F_Ⴟ____________________U+2D20_Ⴠ____________________U+2D21_Ⴡ____________________U+2D22_Ⴢ____________________U+2D23_Ⴣ____________________U+2D24_Ⴤ____________________U+2D25_Ⴥ____________________U+2D27_Ⴧ____________________U+2D2D_Ⴭ____________________U+A641_U+A640_______________U+A643_U+A642_______________U+A645_U+A644_______________U+A647_U+A646_______________U+A649_U+A648_______________U+A64B_U+A64A_______________U+A64D_U+A64C_______________U+A64F_U+A64E_______________U+A651_U+A650_______________U+A653_U+A652_______________U+A655_U+A654_______________U+A657_U+A656_______________"
            \o "U+A659_U+A658_______________U+A65B_U+A65A_______________U+A65D_U+A65C_______________U+A65F_U+A65E_______________U+A661_U+A660_______________U+A663_U+A662_______________U+A665_U+A664_______________U+A667_U+A666_______________U+A669_U+A668_______________U+A66B_U+A66A_______________U+A66D_U+A66C_______________U+A723_U+A722_______________U+A725_U+A724_______________U+A727_U+A726_______________U+A729_U+A728_______________U+A72B_U+A72A_______________U+A72D_U+A72C_______________U+A72F_U+A72E_______________U+A733_U+A732_______________U+A735_U+A734_______________U+A737_U+A736_______________U+A739_U+A738_______________U+A73B_U+A73A_______________U+A73D_U+A73C_______________U+A73F_U+A73E_______________U+A741_U+A740_______________U+A743_U+A742_______________U+A745_U+A744_______________U+A747_U+A746_______________U+A749_U+A748_______________U+A74B_U+A74A_______________U+A74D_U+A74C_______________U+A74F_U+A74E_______________U+A751_U+A750_______________U+A753_U+A752_______________U+A755_U+A754_______________U+A757_U+A756_______________U+A759_U+A758_______________U+A75B_U+A75A_______________U+A75D_U+A75C_______________U+A75F_U+A75E_______________U+A761_U+A760_______________U+A763_U+A762_______________U+A765_U+A764_______________U+A767_U+A766_______________U+A769_U+A768_______________U+A76B_U+A76A_______________U+A76D_U+A76C_______________U+A76F_U+A76E_______________U+A77A_U+A779_______________U+A77C_U+A77B_______________U+A77F_U+A77E_______________U+AB53_Ꭓ____________________U+AB70_Ꭰ____________________U+AB71_Ꭱ____________________U+AB72_Ꭲ____________________U+AB73_Ꭳ____________________U+AB74_Ꭴ____________________U+AB75_Ꭵ____________________U+AB76_Ꭶ____________________U+AB77_Ꭷ____________________U+AB78_Ꭸ____________________U+AB79_Ꭹ____________________U+AB7A_Ꭺ____________________U+AB7B_Ꭻ____________________U+AB7C_Ꭼ____________________U+AB7D_Ꭽ____________________U+AB7E_Ꭾ____________________U+AB7F_Ꭿ____________________U+FB00_F______F_____________U+FB01_F______I_____________U+FB02_F______L_____________U+FB03_F______F______I______U+FB04_F______F______L______U+FB05_S______T_____________U+FB06_S______T_____________U+FB13_U+0544_U+0546________U+FB14_U+0544_U+0535________U+FB15_U+0544_U+053B________U+FB16_U+054E_U+0546________U+FB17_U+0544_U+053D________U+FF41_U+FF21_______________U+FF42_U+FF22_______________U+FF43_U+FF23_______________U+FF44_U+FF24_______________U+FF45_U+FF25_______________U+FF46_U+FF26_______________U+FF47_U+FF27_______________U+FF48_U+FF28_______________U+FF49_U+FF29_______________U+FF4A_U+FF2A_______________U+FF4B_U+FF2B_______________U+FF4C_U+FF2C_______________U+FF4D_U+FF2D_______________U+FF4E_U+FF2E_______________U+FF4F_U+FF2F_______________U+FF50_U+FF30_______________U+FF51_U+FF31_______________U+FF52_U+FF32_______________U+FF53_U+FF33_______________U+FF54_U+FF34_______________U+FF55_U+FF35_______________U+FF56_U+FF36_______________U+FF57_U+FF37_______________U+FF58_U+FF38_______________U+FF59_U+FF39_______________U+FF5A_U+FF3A_______________U+10428U+10400______________U+10429U+10401______________U+1042AU+10402______________U+1042BU+10403______________U+1042CU+10404______________U+1042DU+10405______________U+1042EU+10406______________U+1042FU+10407______________U+10430U+10408______________U+10431U+10409______________U+10432U+1040A______________U+10433U+1040B______________U+10434U+1040C______________U+10435U+1040D______________U+10436U+1040E______________U+10437U+1040F______________"
            \o "U+10438U+10410______________U+10439U+10411______________U+1043AU+10412______________U+1043BU+10413______________U+1043CU+10414______________U+1043DU+10415______________U+1043EU+10416______________U+1043FU+10417______________U+10440U+10418______________U+10441U+10419______________U+10442U+1041A______________U+10443U+1041B______________U+10444U+1041C______________U+10445U+1041D______________U+10446U+1041E______________U+10447U+1041F______________U+10448U+10420______________U+10449U+10421______________U+1044AU+10422______________U+1044BU+10423______________U+1044CU+10424______________U+1044DU+10425______________U+1044EU+10426______________U+1044FU+10427______________U+104D8U+104B0______________U+104D9U+104B1______________U+104DAU+104B2______________U+104DBU+104B3______________U+104DCU+104B4______________U+104DDU+104B5______________U+104DEU+104B6______________U+104DFU+104B7______________U+104E0U+104B8______________U+104E1U+104B9______________U+104E2U+104BA______________U+104E3U+104BB______________U+104E4U+104BC______________U+104E5U+104BD______________U+104E6U+104BE______________U+104E7U+104BF______________U+104E8U+104C0______________U+104E9U+104C1______________U+104EAU+104C2______________U+104EBU+104C3______________U+104ECU+104C4______________U+104EDU+104C5______________U+104EEU+104C6______________U+104EFU+104C7______________U+104F0U+104C8______________U+104F1U+104C9______________U+104F2U+104CA______________U+104F3U+104CB______________U+104F4U+104CC______________U+104F5U+104CD______________U+104F6U+104CE______________U+104F7U+104CF______________U+104F8U+104D0______________U+104F9U+104D1______________U+104FAU+104D2______________U+104FBU+104D3______________U+10597U+10570______________U+10598U+10571______________U+10599U+10572______________U+1059AU+10573______________U+1059BU+10574______________U+1059CU+10575______________U+1059DU+10576______________U+1059EU+10577______________U+1059FU+10578______________U+105A0U+10579______________U+105A1U+1057A______________U+105A3U+1057C______________U+105A4U+1057D______________U+105A5U+1057E______________U+105A6U+1057F______________U+105A7U+10580______________U+105A8U+10581______________U+105A9U+10582______________U+105AAU+10583______________U+105ABU+10584______________U+105ACU+10585______________U+105ADU+10586______________U+105AEU+10587______________U+105AFU+10588______________U+105B0U+10589______________U+105B1U+1058A______________U+105B3U+1058C______________U+105B4U+1058D______________U+105B5U+1058E______________U+105B6U+1058F______________U+105B7U+10590______________U+105B8U+10591______________U+105B9U+10592______________U+105BBU+10594______________U+105BCU+10595______________U+10CC0U+10C80______________U+10CC1U+10C81______________U+10CC2U+10C82______________U+10CC3U+10C83______________U+10CC4U+10C84______________U+10CC5U+10C85______________U+10CC6U+10C86______________U+10CC7U+10C87______________U+10CC8U+10C88______________U+10CC9U+10C89______________U+10CCAU+10C8A______________U+10CCBU+10C8B______________U+10CCCU+10C8C______________U+10CCDU+10C8D______________U+10CCEU+10C8E______________U+10CCFU+10C8F______________U+10CD0U+10C90______________U+10CD1U+10C91______________U+10CD2U+10C92______________U+10CD3U+10C93______________U+10CD4U+10C94______________U+10CD5U+10C95______________U+10CD6U+10C96______________U+10CD7U+10C97______________U+10CD8U+10C98______________U+10CD9U+10C99______________U+10CDAU+10C9A______________U+10CDBU+10C9B______________"
            \o "U+10CDCU+10C9C______________U+10CDDU+10C9D______________U+10CDEU+10C9E______________U+10CDFU+10C9F______________U+10CE0U+10CA0______________U+10CE1U+10CA1______________U+10CE2U+10CA2______________U+10CE3U+10CA3______________U+10CE4U+10CA4______________U+10CE5U+10CA5______________U+10CE6U+10CA6______________U+10CE7U+10CA7______________U+10CE8U+10CA8______________U+10CE9U+10CA9______________U+10CEAU+10CAA______________U+10CEBU+10CAB______________U+10CECU+10CAC______________U+10CEDU+10CAD______________U+10CEEU+10CAE______________U+10CEFU+10CAF______________U+10CF0U+10CB0______________U+10CF1U+10CB1______________U+10CF2U+10CB2______________U+118C0U+118A0______________U+118C1U+118A1______________U+118C2U+118A2______________U+118C3U+118A3______________U+118C4U+118A4______________U+118C5U+118A5______________U+118C6U+118A6______________U+118C7U+118A7______________U+118C8U+118A8______________U+118C9U+118A9______________U+118CAU+118AA______________U+118CBU+118AB______________U+118CCU+118AC______________U+118CDU+118AD______________U+118CEU+118AE______________U+118CFU+118AF______________U+118D0U+118B0______________U+118D1U+118B1______________U+118D2U+118B2______________U+118D3U+118B3______________U+118D4U+118B4______________U+118D5U+118B5______________U+118D6U+118B6______________U+118D7U+118B7______________U+118D8U+118B8______________U+118D9U+118B9______________U+118DAU+118BA______________U+118DBU+118BB______________U+118DCU+118BC______________U+118DDU+118BD______________U+118DEU+118BE______________U+118DFU+118BF______________U+16E60U+16E40______________U+16E61U+16E41______________U+16E62U+16E42______________U+16E63U+16E43______________U+16E64U+16E44______________U+16E65U+16E45______________U+16E66U+16E46______________U+16E67U+16E47______________U+16E68U+16E48______________U+16E69U+16E49______________U+16E6AU+16E4A______________U+16E6BU+16E4B______________U+16E6CU+16E4C______________U+16E6DU+16E4D______________U+16E6EU+16E4E______________U+16E6FU+16E4F______________U+16E70U+16E50______________U+16E71U+16E51______________U+16E72U+16E52______________U+16E73U+16E53______________U+16E74U+16E54______________U+16E75U+16E55______________U+16E76U+16E56______________U+16E77U+16E57______________U+16E78U+16E58______________U+16E79U+16E59______________U+16E7AU+16E5A______________U+16E7BU+16E5B______________U+16E7CU+16E5C______________U+16E7DU+16E5D______________U+16E7EU+16E5E______________U+16E7FU+16E5F______________U+1E922U+1E900______________U+1E923U+1E901______________U+1E924U+1E902______________U+1E925U+1E903______________U+1E926U+1E904______________U+1E927U+1E905______________U+1E928U+1E906______________U+1E929U+1E907______________U+1E92AU+1E908______________U+1E92BU+1E909______________U+1E92CU+1E90A______________U+1E92DU+1E90B______________U+1E92EU+1E90C______________U+1E92FU+1E90D______________U+1E930U+1E90E______________U+1E931U+1E90F______________U+1E932U+1E910______________U+1E933U+1E911______________U+1E934U+1E912______________U+1E935U+1E913______________U+1E936U+1E914______________U+1E937U+1E915______________U+1E938U+1E916______________U+1E939U+1E917______________U+1E93AU+1E918______________U+1E93BU+1E919______________U+1E93CU+1E91A______________U+1E93DU+1E91B______________U+1E93EU+1E91C______________U+1E93FU+1E91D______________U+1E940U+1E91E______________U+1E941U+1E91F______________U+1E942U+1E920______________U+1E943U+1E921______________"
        Character(f) == IF SubSeq(f, 2, 2) = "_" THEN SubSeq(f, 1, 1)
                        ELSE IF SubSeq(f, 7, 7) = "_" THEN SubSeq(f, 1, 6)
                        ELSE f
        Cased(lower, upper) ==
            [i \in 1..Len(lower) |-> <<SubSeq(lower, i, i), <<SubSeq(upper, i, i)>>>>]
        Other(fields) ==
            [k \in 1..(Len(fields) \div 28) |->
                <<Character(SubSeq(fields, 28 * k - 27, 28 * k - 21)),
                  [j \in 1..Cardinality({j \in 1..3 : SubSeq(fields, 28 * k - 27 + 7 * j, 28 * k - 26 + 7 * j) /= "__"}) |->
                      Character(SubSeq(fields, 28 * k - 27 + 7 * j, 28 * k - 21 + 7 * j))]>>]
        Table(pairs) ==
            [c \in {pairs[i][1] : i \in DOMAIN pairs} |->
                pairs[CHOOSE i \in DOMAIN pairs : pairs[i][1] = c][2]]
    IN  Table([i \in 1..Len(LowerChars) |-> <<LowerChars[i], <<UpperChars[i]>>>>]
              \o Cased(CASED_LOWER, CASED_UPPER) \o Other(OTHER_UPPER))

DigitVal(c) == (CHOOSE i \in 1..10 : DigitStr[i] = c) - 1

\* the parts lo..hi of a sequence of strings, one after the other
RECURSIVE Joined(_, _, _)
Joined(parts, lo, hi) ==
    IF lo > hi THEN <<>>
    ELSE IF lo = hi THEN parts[lo]
    ELSE Joined(parts, lo, (lo + hi) \div 2) \o Joined(parts, (lo + hi) \div 2 + 1, hi)

\* str.upper(): every character that has an entry in UpperCase becomes what
\* the entry says and the others stay.  The letters of LowerChars, which are
\* entries of UpperCase, and the digits, the letters of UpperChars and the
\* separators, which are not, are settled without a look at the whole table.
Upper(s) ==
    LET Same == DigitChars \cup {UpperChars[i] : i \in 1..Len(UpperChars)} \cup {" ", "-", "."}
        Entry(table, c) == IF c \in DOMAIN table THEN table[c] ELSE <<c>>
        UpperOf(c) ==
            IF c \in Same THEN <<c>>
            ELSE IF \E i \in 1..Len(LowerChars) : LowerChars[i] = c
                 THEN <<UpperChars[CHOOSE i \in 1..Len(LowerChars) : LowerChars[i] = c]>>
            ELSE Entry(UpperCase, c)
    IN  Joined([i \in 1..Len(s) |-> UpperOf(s[i])], 1, Len(s))

\* str.strip()
Strip(s) ==
    IF \A i \in 1..Len(s) : s[i] \in Whitespace THEN <<>>
    ELSE LET first == CHOOSE i \in 1..Len(s) :
                          s[i] \notin Whitespace /\ \A j \in 1..(i - 1) : s[j] \in Whitespace
             last  == CHOOSE i \in 1..Len(s) :
                          s[i] \notin Whitespace /\ \A j \in (i + 1)..Len(s) : s[j] \in Whitespace
         IN  SubSeq(s, first, last)

\* str.replace(c, "") for each c of chars in turn; re.sub of a character class
RemoveChars(s, chars) == SelectSeq(s, LAMBDA c : c \notin chars)

\* a in b, for two str
IsSubstring(a, b) == \E i \in 1..(Len(b) - Len(a) + 1) : SubSeq(b, i, i + Len(a) - 1) = a

\* the str as a TLA+ string, to build a message
RECURSIVE SeqToStr(_)
SeqToStr(s) == IF s = <<>> THEN "" ELSE s[1] \o SeqToStr(Tail(s))

AllIn(s, from, to, chars) == \A i \in from..to : s[i] \in chars

\* the six patterns of the validators, each on the whole of s
FullMatch(pattern, s) ==
    CASE pattern = "^[0-9]{8}[A-Z]$" ->
             Len(s) = 9 /\ AllIn(s, 1, 8, DigitChars) /\ s[9] \in AsciiUpper
      [] pattern = "^[0-9]{9}$" ->
             Len(s) = 9 /\ AllIn(s, 1, 9, DigitChars)
      [] pattern = "^[0-9]{11}$" ->
             Len(s) = 11 /\ AllIn(s, 1, 11, DigitChars)
      [] pattern = "^[A-Z]{4}[0-9]{6}[HM][A-Z]{5}[0-9A-Z][0-9]$" ->
             /\ Len(s) = 18
             /\ AllIn(s, 1, 4, AsciiUpper)
             /\ AllIn(s, 5, 10, DigitChars)
             /\ s[11] \in {"H", "M"}
             /\ AllIn(s, 12, 16, AsciiUpper)
             /\ s[17] \in DigitChars \cup AsciiUpper
             /\ s[18] \in DigitChars
      [] pattern = "^[A-Z0-9]{16}$" ->
             Len(s) = 16 /\ AllIn(s, 1, 16, AsciiUpper \cup DigitChars)
      [] pattern = "^[0-9]{8,10}$" ->
             Len(s) \in 8..10 /\ AllIn(s, 1, Len(s), DigitChars)

\* re.match(pattern, s): the $ also matches before one final newline
ReMatch(pattern, s) ==
    \/ FullMatch(pattern, s)
    \/ Len(s) > 0 /\ s[Len(s)] = "\n" /\ FullMatch(pattern, SubSeq(s, 1, Len(s) - 1))

(***************************************************************************)
(* utils/document_validator.py: the six validators.  Each returns          *)
(* [ok, err]: the tuple (is_valid, error_message).                         *)
(***************************************************************************)
Valid == [ok |-> TRUE, err |-> <<>>]
Invalid(msg) == [ok |-> FALSE, err |-> <<msg>>]

valid_letters ==
    <<"T", "R", "W", "A", "G", "M", "Y", "F", "P", "D", "X", "B", "N", "J", "Z", "S",
      "Q", "V", "H", "L", "C", "K", "E">>

RECURSIVE DigitsToInt(_)
DigitsToInt(s) ==
    IF s = <<>> THEN 0 ELSE 10 * DigitsToInt(SubSeq(s, 1, Len(s) - 1)) + DigitVal(s[Len(s)])

\* sum(d * w for d, w in zip(digits, weights))
RECURSIVE WeightedSum(_, _)
WeightedSum(digits, weights) ==
    IF digits = <<>> \/ weights = <<>> THEN 0
    ELSE digits[1] * weights[1] + WeightedSum(Tail(digits), Tail(weights))

\* 0 if remainder < 2 else 11 - remainder
CheckDigit(total) == IF total % 11 < 2 THEN 0 ELSE 11 - (total % 11)

\* the letter is compared as it was typed
validate_dni_spain_CaseSensitive(document) ==
    LET doc == RemoveChars(document, {" ", "-"})
    IN  IF ~ReMatch("^[0-9]{8}[A-Z]$", doc)
        THEN Invalid("El DNI debe tener 8 dígitos seguidos de una letra (ej: 12345678Z)")
        ELSE LET digits          == SubSeq(doc, 1, 8)
                 letter          == doc[9]
                 letter_index    == DigitsToInt(digits) % 23
                 expected_letter == valid_letters[letter_index + 1]
             IN  IF letter /= expected_letter
                 THEN Invalid("La letra del DNI no es válida. Debería ser " \o expected_letter)
                 ELSE Valid

validate_dni_spain(document) ==
    LET doc == Upper(RemoveChars(document, {" ", "-"}))
    IN  IF ~ReMatch("^[0-9]{8}[A-Z]$", doc)
        THEN Invalid("El DNI debe tener 8 dígitos seguidos de una letra (ej: 12345678Z)")
        ELSE LET digits          == SubSeq(doc, 1, 8)
                 letter          == doc[9]
                 letter_index    == DigitsToInt(digits) % 23
                 expected_letter == valid_letters[letter_index + 1]
             IN  IF letter /= expected_letter
                 THEN Invalid("La letra del DNI no es válida. Debería ser " \o expected_letter)
                 ELSE Valid

validate_nif_portugal(document) ==
    LET doc == RemoveChars(document, {" ", "-"})
    IN  IF ~ReMatch("^[0-9]{9}$", doc) THEN Invalid("El NIF debe tener 9 dígitos")
        ELSE IF Len(doc) = 9
                /\ LET digits      == [i \in 1..8 |-> DigitVal(doc[i])]
                       check_digit == DigitVal(doc[9])
                       weights     == <<9, 8, 7, 6, 5, 4, 3, 2>>
                   IN  check_digit /= CheckDigit(WeightedSum(digits, weights))
        THEN Invalid("El dígito verificador del NIF no es válido")
        ELSE Valid

\* the second check digit is looked at before the first
validate_cpf_brazil_SecondDigitFirst(document) ==
    LET doc == RemoveChars(document, {".", "-"} \cup Whitespace)
    IN  IF ~ReMatch("^[0-9]{11}$", doc) THEN Invalid("El CPF debe tener 11 dígitos")
        ELSE IF Cardinality({doc[i] : i \in 1..Len(doc)}) = 1
        THEN Invalid("El CPF no puede tener todos los dígitos iguales")
        ELSE LET digits   == [i \in 1..9 |-> DigitVal(doc[i])]
                 weights1 == <<10, 9, 8, 7, 6, 5, 4, 3, 2>>
                 check1   == CheckDigit(WeightedSum(digits, weights1))
                 weights2 == <<11, 10, 9, 8, 7, 6, 5, 4, 3, 2>>
                 check2   == CheckDigit(WeightedSum(Append(digits, check1), weights2))
             IN  IF check2 /= DigitVal(doc[11])
                 THEN Invalid("El segundo dígito verificador del CPF no es válido")
                 ELSE IF check1 /= DigitVal(doc[10])
                 THEN Invalid("El primer dígito verificador del CPF no es válido")
                 ELSE Valid

\* the check digits alone decide
validate_cpf_brazil_NoSameDigitCheck(document) ==
    LET doc == RemoveChars(document, {".", "-"} \cup Whitespace)
    IN  IF ~ReMatch("^[0-9]{11}$", doc) THEN Invalid("El CPF debe tener 11 dígitos")
        ELSE LET digits   == [i \in 1..9 |-> DigitVal(doc[i])]
                 weights1 == <<10, 9, 8, 7, 6, 5, 4, 3, 2>>
                 check1   == CheckDigit(WeightedSum(digits, weights1))
                 weights2 == <<11, 10, 9, 8, 7, 6, 5, 4, 3, 2>>
                 check2   == CheckDigit(WeightedSum(Append(digits, check1), weights2))
             IN  IF check1 /= DigitVal(doc[10])
                 THEN Invalid("El primer dígito verificador del CPF no es válido")
                 ELSE IF check2 /= DigitVal(doc[11])
                 THEN Invalid("El segundo dígito verificador del CPF no es válido")
                 ELSE Valid

validate_cpf_brazil(document) ==
    LET doc == RemoveChars(document, {".", "-"} \cup Whitespace)
    IN  IF ~ReMatch("^[0-9]{11}$", doc) THEN Invalid("El CPF debe tener 11 dígitos")
        ELSE IF Cardinality({doc[i] : i \in 1..Len(doc)}) = 1
        THEN Invalid("El CPF no puede tener todos los dígitos iguales")
        ELSE LET digits   == [i \in 1..9 |-> DigitVal(doc[i])]
                 weights1 == <<10, 9, 8, 7, 6, 5, 4, 3, 2>>
                 check1   == CheckDigit(WeightedSum(digits, weights1))
                 weights2 == <<11, 10, 9, 8, 7, 6, 5, 4, 3, 2>>
                 check2   == CheckDigit(WeightedSum(Append(digits, check1), weights2))
             IN  IF check1 /= DigitVal(doc[10])
                 THEN Invalid("El primer dígito verificador del CPF no es válido")
                 ELSE IF check2 /= DigitVal(doc[11])
                 THEN Invalid("El segundo dígito verificador del CPF no es válido")
                 ELSE Valid

validate_curp_mexico(document) ==
    LET doc == Upper(RemoveChars(document, {" ", "-"}))
    IN  IF ~ReMatch("^[A-Z]{4}[0-9]{6}[HM][A-Z]{5}[0-9A-Z][0-9]$", doc)
        THEN Invalid("El CURP debe tener 18 caracteres alfanuméricos en el formato correcto")
        ELSE Valid

validate_codice_fiscale_italy(document) ==
    LET doc == Upper(RemoveChars(document, {" ", "-"}))
    IN  IF ~ReMatch("^[A-Z0-9]{16}$", doc)
        THEN Invalid("El Codice Fiscale debe tener 16 caracteres alfanuméricos")
        ELSE Valid

validate_cedula_colombia(document) ==
    LET doc == RemoveChars(document, {" ", "-", "."})
    IN  IF ~ReMatch("^[0-9]{8,10}$", doc)
        THEN Invalid("La Cédula de Ciudadanía debe tener entre 8 y 10 dígitos")
        ELSE Valid

(***************************************************************************)
(* utils/document_validator.py: validate_document_format.                  *)
(***************************************************************************)
SPAIN == "Spain"
PORTUGAL == "Portugal"
BRAZIL == "Brazil"
MEXICO == "Mexico"
ITALY == "Italy"
COLOMBIA == "Colombia"
Country == {BRAZIL, MEXICO, PORTUGAL, SPAIN, ITALY, COLOMBIA}

DNI == <<"D", "N", "I">>
NIF == <<"N", "I", "F">>
CPF == <<"C", "P", "F">>
CURP == <<"C", "U", "R", "P">>
CODICE_FISCALE == <<"C", "O", "D", "I", "C", "E", " ", "F", "I", "S", "C", "A", "L", "E">>
CEDULA_PLAIN ==
    <<"C", "E", "D", "U", "L", "A", " ", "D", "E", " ",
      "C", "I", "U", "D", "A", "D", "A", "N", "I", "A">>
CC == <<"C", "C">>

\* the validators dict, in insertion order; v names the validator
validators ==
    << [c |-> SPAIN,    dt |-> DNI,            v |-> "validate_dni_spain"],
       [c |-> PORTUGAL, dt |-> NIF,            v |-> "validate_nif_portugal"],
       [c |-> BRAZIL,   dt |-> CPF,            v |-> "validate_cpf_brazil"],
       [c |-> MEXICO,   dt |-> CURP,           v |-> "validate_curp_mexico"],
       [c |-> ITALY,    dt |-> CODICE_FISCALE, v |-> "validate_codice_fiscale_italy"],
       [c |-> COLOMBIA,
        dt |-> <<"C", "É", "D", "U", "L", "A", " ", "D", "E", " ",
                 "C", "I", "U", "D", "A", "D", "A", "N", "Í", "A">>,
        v |-> "validate_cedula_colombia"],
       [c |-> COLOMBIA, dt |-> CEDULA_PLAIN,   v |-> "validate_cedula_colombia"],
       [c |-> COLOMBIA, dt |-> CC,             v |-> "validate_cedula_colombia"] >>

ApplyValidator(v, document) ==
    CASE v = "validate_dni_spain"            -> validate_dni_spain(document)
      [] v = "validate_nif_portugal"         -> validate_nif_portugal(document)
      [] v = "validate_cpf_brazil"           -> validate_cpf_brazil(document)
      [] v = "validate_curp_mexico"          -> validate_curp_mexico(document)
      [] v = "validate_codice_fiscale_italy" -> validate_codice_fiscale_italy(document)
      [] v = "validate_cedula_colombia"      -> validate_cedula_colombia(document)

\* the entries the exact lookup and the partial-match loop select
ExactMatch(country, document_type_upper) ==
    {i \in 1..Len(validators) :
        validators[i].c = country /\ validators[i].dt = document_type_upper}

\* c == country and dt in document_type_upper or document_type_upper in dt
PartialMatch(country, document_type_upper) ==
    {i \in 1..Len(validators) :
        \/ validators[i].c = country /\ IsSubstring(validators[i].dt, document_type_upper)
        \/ IsSubstring(document_type_upper, validators[i].dt)}

Min(S) == CHOOSE x \in S : \A y \in S : x <= y

\* a dispatcher that compares the declared type as written
SelectedValidator_CaseSensitive(country, document_type) ==
    LET exact   == ExactMatch(country, Strip(document_type))
        partial == PartialMatch(country, Strip(document_type))
    IN  IF exact /= {} THEN validators[Min(exact)].v
        ELSE IF partial /= {} THEN validators[Min(partial)].v
        ELSE "generic"

\* the validator validate_document_format hands the document to; "generic"
\* when none matches
SelectedValidator(country, document_type) ==
    LET document_type_upper == Strip(Upper(document_type))
        exact   == ExactMatch(country, document_type_upper)
        partial == PartialMatch(country, document_type_upper)
    IN  IF exact /= {} THEN validators[Min(exact)].v
        ELSE IF partial /= {} THEN validators[Min(partial)].v
        ELSE "generic"

\* a dispatcher whose generic policy has no upper length limit
validate_document_format_NoUpperLimit(country, document_type, document) ==
    IF document = <<>> \/ Strip(document) = <<>>
    THEN Invalid("El documento de identidad es requerido")
    ELSE LET document_clean == Strip(document)
             v              == SelectedValidator(country, document_type)
         IN  IF v /= "generic" THEN ApplyValidator(v, document_clean)
             ELSE IF Len(document_clean) < 3
             THEN Invalid("El documento " \o SeqToStr(document_type)
                          \o " debe tener al menos 3 caracteres")
             ELSE Valid

\* a dispatcher that hands a blank document to the validator or the length checks
validate_document_format_NoRequiredCheck(country, document_type, document) ==
    LET document_clean == Strip(document)
        v              == SelectedValidator(country, document_type)
    IN  IF v /= "generic" THEN ApplyValidator(v, document_clean)
        ELSE IF Len(document_clean) < 3
        THEN Invalid("El documento " \o SeqToStr(document_type)
                     \o " debe tener al menos 3 caracteres")
        ELSE IF Len(document_clean) > 50
        THEN Invalid("El documento " \o SeqToStr(document_type)
                     \o " no puede tener más de 50 caracteres")
        ELSE Valid

validate_document_format(country, document_type, document) ==
    IF document = <<>> \/ Strip(document) = <<>>
    THEN Invalid("El documento de identidad es requerido")
    ELSE LET document_clean == Strip(document)
             v              == SelectedValidator(country, document_type)
         IN  IF v /= "generic" THEN ApplyValidator(v, document_clean)
             ELSE IF Len(document_clean) < 3
             THEN Invalid("El documento " \o SeqToStr(document_type)
                          \o " debe tener al menos 3 caracteres")
             ELSE IF Len(document_clean) > 50
             THEN Invalid("El documento " \o SeqToStr(document_type)
                          \o " no puede tener más de 50 caracteres")
             ELSE Valid

(***************************************************************************)
(* services/credit_request_service.py: validate_country_rules.             *)
(*                                                                         *)
(* A ValidationRule is [max_percentage, enabled, error_message]; a country *)
(* rule is [country, required_document_type, is_active, validation_rules]  *)
(* (the stored document also has an id).                                   *)
(***************************************************************************)
Truthy(opt) == opt /= <<>> /\ opt[1] /= ""

ONE_EXAMPLE_PER_COUNTRY_CLEAN(country) ==
    CASE country = SPAIN    -> "12345678Z"
      [] country = PORTUGAL -> "123456789"
      [] country = BRAZIL   -> "12345678909"
      [] country = MEXICO   -> "ABCD123456HDFXYZ01"
      [] country = ITALY    -> "RSSMRA80A01H501U"
      [] country = COLOMBIA -> "12345678"

\* the document_format entry, or nothing when the document is accepted
DocumentErrors(country, country_rule, identity_document) ==
    LET res == validate_document_format(country, country_rule.required_document_type,
                                        identity_document)
        example      == ONE_EXAMPLE_PER_COUNTRY_CLEAN(country)
        example_text == IF example /= "" THEN ". Ejemplo válido: " \o example ELSE ""
    IN  IF res.ok THEN <<>>
        ELSE << [rule_type              |-> "document_format",
                 required_document_type |-> country_rule.required_document_type,
                 provided_document      |-> identity_document,
                 error_message          |->
                     IF Truthy(res.err) THEN res.err[1]
                     ELSE "El formato del documento "
                          \o SeqToStr(country_rule.required_document_type)
                          \o " no es válido para " \o country \o example_text] >>

\* (requested_amount / monthly_income) * 100
Percentage(requested_amount, monthly_income) ==
    FMul(FDiv(requested_amount, monthly_income), 100)

\* the rounded percentage is compared with the cap
ExceedsMax_Rounded(percentage, max_percentage) ==
    10 * Round2(percentage) > max_percentage

\* percentage > rule.max_percentage
ExceedsMax(percentage, max_percentage) ==
    FGt(percentage, MaxPercentageFloat(max_percentage))

DefaultRatioMessage(rule, requested_amount, monthly_income, percentage) ==
    "El monto solicitado (" \o IntFloatToStr(requested_amount) \o ") excede el "
    \o DecimalToStr(rule.max_percentage, 3) \o "% del ingreso mensual ("
    \o IntFloatToStr(monthly_income) \o "). Porcentaje calculado: "
    \o DecimalToStr(Round2(percentage), 2) \o "%"

\* the branch monthly_income > 0 of the loop body
RatioErrors(rule, requested_amount, monthly_income) ==
    LET percentage == Percentage(requested_amount, monthly_income)
    IN  IF ExceedsMax(percentage, rule.max_percentage)
        THEN << [rule_type            |-> "amount_to_income_ratio",
                 max_percentage       |-> rule.max_percentage,
                 requested_percentage |-> <<Round2(percentage)>>,
                 requested_amount     |-> requested_amount,
                 monthly_income       |-> monthly_income,
                 error_message        |->
                     IF Truthy(rule.error_message) THEN rule.error_message[1]
                     ELSE DefaultRatioMessage(rule, requested_amount,
                                              monthly_income, percentage)] >>
        ELSE <<>>

\* an income of zero or less is let through
IncomeErrors_Silent(rule, requested_amount, monthly_income) == <<>>

\* the else branch of the loop body: monthly_income is 0 or negative
IncomeErrors(rule, requested_amount, monthly_income) ==
    << [rule_type            |-> "amount_to_income_ratio",
        max_percentage       |-> rule.max_percentage,
        requested_percentage |-> <<>>,
        requested_amount     |-> requested_amount,
        monthly_income       |-> monthly_income,
        error_message        |-> "El ingreso mensual debe ser mayor a cero"] >>

\* the enabled flag is not looked at
RuleSkipped_Never(rule) == FALSE

\* if not rule.enabled: continue
RuleSkipped(rule) == ~rule.enabled

\* one pass of the loop over country_rule.validation_rules: the entry the
\* rule appends, or nothing
RuleErrors(rule, requested_amount, monthly_income) ==
    IF RuleSkipped(rule) THEN <<>>
    ELSE IF monthly_income > 0 THEN RatioErrors(rule, requested_amount, monthly_income)
    ELSE IncomeErrors(rule, requested_amount, monthly_income)

\* the loop ends at the first rule that appends an error
RECURSIVE AffordabilityErrors_StopAtFirst(_, _, _)
AffordabilityErrors_StopAtFirst(validation_rules, requested_amount, monthly_income) ==
    IF validation_rules = <<>> THEN <<>>
    ELSE IF RuleErrors(validation_rules[1], requested_amount, monthly_income) /= <<>>
    THEN RuleErrors(validation_rules[1], requested_amount, monthly_income)
    ELSE AffordabilityErrors_StopAtFirst(Tail(validation_rules), requested_amount,
                                         monthly_income)

\* the loop over country_rule.validation_rules, in list order
RECURSIVE AffordabilityErrors(_, _, _)
AffordabilityErrors(validation_rules, requested_amount, monthly_income) ==
    IF validation_rules = <<>> THEN <<>>
    ELSE RuleErrors(validation_rules[1], requested_amount, monthly_income)
         \o AffordabilityErrors(Tail(validation_rules), requested_amount, monthly_income)

\* the messages are joined by a comma
RECURSIVE JoinMessages_Comma(_)
JoinMessages_Comma(error_messages) ==
    IF error_messages = <<>> THEN ""
    ELSE IF Len(error_messages) = 1 THEN error_messages[1]
    ELSE error_messages[1] \o ", " \o JoinMessages_Comma(Tail(error_messages))

\* "; ".join(error_messages)
RECURSIVE JoinMessages(_)
JoinMessages(error_messages) ==
    IF error_messages = <<>> THEN ""
    ELSE IF Len(error_messages) = 1 THEN error_messages[1]
    ELSE error_messages[1] \o "; " \o JoinMessages(Tail(error_messages))

MainMessage == "La solicitud no cumple con las reglas de validación del país"

RuleDetails(country, country_rule, validation_errors) ==
    [country                |-> country,
     required_document_type |-> country_rule.required_document_type,
     errors                 |-> validation_errors,
     summary                |->
         JoinMessages([i \in 1..Len(validation_errors) |->
                          validation_errors[i].error_message])]

\* the affordability errors are put before the document error
ValidationErrors_AffordabilityFirst(country, country_rule, identity_document, requested_amount, monthly_income) ==
    AffordabilityErrors(country_rule.validation_rules, requested_amount, monthly_income)
    \o DocumentErrors(country, country_rule, identity_document)

\* validation_errors after the document check and the loop
ValidationErrors(country, country_rule, identity_document, requested_amount, monthly_income) ==
    DocumentErrors(country, country_rule, identity_document)
    \o AffordabilityErrors(country_rule.validation_rules, requested_amount, monthly_income)

Returned(log, checked) ==
    [raised |-> FALSE, message |-> <<>>, rule_details |-> <<>>,
     log |-> log, checked |-> checked]

\* the is_active flag of the rule is not looked at
validate_country_rules_IgnoringActiveFlag(lookup, country, identity_document, requested_amount, monthly_income) ==
    IF lookup = <<>>
    THEN Returned(<<"warning: no country rule found, skipping validation">>, FALSE)
    ELSE LET validation_errors == ValidationErrors(country, lookup[1], identity_document,
                                                   requested_amount, monthly_income)
         IN  IF validation_errors /= <<>>
             THEN [raised       |-> TRUE,
                   message      |-> <<MainMessage>>,
                   rule_details |-> <<RuleDetails(country, lookup[1], validation_errors)>>,
                   log          |-> <<>>,
                   checked      |-> TRUE]
             ELSE Returned(<<>>, TRUE)

\* The outcome of validate_country_rules when get_country_rule_by_country
\* answered lookup (<<>> is None).  raised: ValidationError(message,
\* rule_details) was raised; log: what the function logged; checked: whether
\* the document check and the loop over the rules ran.
validate_country_rules(lookup, country, identity_document, requested_amount, monthly_income) ==
    IF lookup = <<>>
    THEN Returned(<<"warning: no country rule found, skipping validation">>, FALSE)
    ELSE IF ~lookup[1].is_active
    THEN Returned(<<"info: country rule is inactive, skipping validation">>, FALSE)
    ELSE LET country_rule      == lookup[1]
             validation_errors == ValidationErrors(country, country_rule, identity_document,
                                                   requested_amount, monthly_income)
         IN  IF validation_errors /= <<>>
             THEN [raised       |-> TRUE,
                   message      |-> <<MainMessage>>,
                   rule_details |-> <<RuleDetails(country, country_rule, validation_errors)>>,
                   log          |-> <<>>,
                   checked      |-> TRUE]
             ELSE Returned(<<>>, TRUE)

(***************************************************************************)
(* State.                                                                  *)
(*  country_rules   : the country_rules collection, in insertion order     *)
(*  credit_requests : the credit_requests collection, in insertion order   *)
(*  call            : the call in progress and its position (pc)           *)
(***************************************************************************)
VARIABLES country_rules, credit_requests, call, next_rule_id, admin

vars == <<country_rules, credit_requests, call, next_rule_id, admin>>

\* admin is the administration of a collection: pending is the bag of its
\* calls in progress, each at its second await, and op, country, raised and
\* returned tell of the last call that ended: its function, the country of a
\* create, the message of its ValueError and what it returned (None is <<>>)
NoAdminCall ==
    [op |-> "none", country |-> "", raised |-> <<>>, returned |-> <<>>, pending |-> EmptyBag]

(***************************************************************************)
(* Inputs.                                                                 *)
(***************************************************************************)
MaxRuleCount == 2

CustomMessage == "El monto solicitado no puede exceder el 30% del ingreso mensual"

\* the rules of the lists: every cap enabled with the default message, the
\* 30% cap enabled with its custom message, and two caps disabled
ValidationRule ==
    [max_percentage : {29999, 30000, 55000}, enabled : {TRUE}, error_message : {<<>>}]
    \cup [max_percentage : {30000}, enabled : {TRUE}, error_message : {<<CustomMessage>>}]
    \cup [max_percentage : {30000, 55000}, enabled : {FALSE}, error_message : {<<>>}]

CPF_FORMATTED == <<"1", "2", "3", ".", "4", "5", "6", ".", "7", "8", "9", "-", "0", "9">>
CPF_SHORT == <<"1", "2", "3", "4", "5", "6">>
DNI_VALID == <<"1", "2", "3", "4", "5", "6", "7", "8", "Z">>
DNI_WRONG_LETTER == <<"1", "2", "3", "4", "5", "6", "7", "8", "A">>

\* the candidates: for Brazil and Spain a document the country's validator
\* accepts and one it rejects, with <<requested_amount, monthly_income>> of
\* 20%, 30%, 40% and 55% of an income of 5000, two of these amounts with no
\* and with a negative income, and 29.996% and 30.001% of an income of 100000
Candidates ==
    LET AmountsAndIncomes ==
            ({1000, 1500, 2000, 2750} \X {5000}) \cup ({1000, 2750} \X {-5000, 0})
            \cup ({29996, 30001} \X {100000})
        Documents(country) ==
            IF country = BRAZIL THEN {CPF_FORMATTED, CPF_SHORT}
            ELSE {DNI_VALID, DNI_WRONG_LETTER}
    IN  {[country |-> cd[1], identity_document |-> cd[2], requested_amount |-> ai[1],
          monthly_income |-> ai[2]] :
            cd \in {cd \in {BRAZIL, SPAIN} \X
                              {CPF_FORMATTED, CPF_SHORT, DNI_VALID, DNI_WRONG_LETTER} :
                        cd[2] \in Documents(cd[1])},
            ai \in AmountsAndIncomes}

(***************************************************************************)
(* SpecValidate: validate_country_rules as a function of the candidate and *)
(* of the answer of get_country_rule_by_country.                           *)
(***************************************************************************)
InitValidate ==
    /\ country_rules = <<>>
    /\ credit_requests = <<>>
    /\ next_rule_id = 1
    /\ admin = NoAdminCall
    /\ \E cand \in Candidates :
       \E lookup \in {<<>>} \cup
                     {<<r>> : r \in [country : {cand.country},
                                     required_document_type : {CPF, DNI},
                                     is_active : BOOLEAN,
                                     validation_rules :
                                         UNION {[1..k -> ValidationRule] :
                                                    k \in 0..MaxRuleCount}]} :
          call = [pc |-> "called", candidate |-> cand, country_rule |-> lookup,
                  outcome |-> <<>>]

Validate ==
    /\ call.pc = "called"
    /\ call' = [call EXCEPT
                  !.pc = "returned",
                  !.outcome = <<validate_country_rules(
                                    call.country_rule, call.candidate.country,
                                    call.candidate.identity_document,
                                    call.candidate.requested_amount,
                                    call.candidate.monthly_income)>>]
    /\ UNCHANGED <<country_rules, credit_requests, next_rule_id, admin>>

NextValidate == Validate

SpecValidate == InitValidate /\ [][NextValidate]_vars

\* an exception is [type, bases, message, rule_details]: type is its class,
\* bases the classes of type.__mro__, which are those an except clause
\* catches it by, message its str, and rule_details is empty but for the
\* ValidationError of the service.  mro is the class and the classes it
\* derives from; the type "none" stands for a call that returns a request.
RaisedException(mro, message) ==
    [type |-> mro[1], bases |-> {mro[i] : i \in DOMAIN mro}, message |-> message,
     rule_details |-> <<>>]

\* class ValidationError(Exception) of the service
ValidationErrorOf(outcome) ==
    [type |-> "ValidationError", bases |-> {"ValidationError", "Exception", "BaseException"},
     message |-> outcome.message[1], rule_details |-> outcome.rule_details]

\* the ValidationError of pydantic for a required field the constructor call
\* does not pass; the message is the text up to the name of the error
MissingField(model, field) ==
    RaisedException(<<"pydantic.ValidationError", "ValueError", "Exception", "BaseException">>,
                    "1 validation error for " \o model \o "\n" \o field \o "\n  Field required")

(***************************************************************************)
(* Spec: the country_rules collection under the administration of          *)
(* services/country_rule_service.py over its repository, and               *)
(* create_credit_request, one step per await.  Calls of the administration *)
(* may be in progress together, and together with a create_credit_request. *)
(***************************************************************************)
MaxRuleIds == 2
MaxPending == 2

\* a stored rule is [id, country, required_document_type, is_active,
\* validation_rules]; next_rule_id is the id the next insert gets, as an
\* ObjectId is never handed out twice
RuleIds == {country_rules[i].id : i \in 1..Len(country_rules)}

\* the rule lists of the stored rules: the 30% cap with its custom message,
\* and a 25% cap with the default message
StoredRuleList ==
    <<[max_percentage |-> 30000, enabled |-> TRUE, error_message |-> <<CustomMessage>>]>>

StrictRuleList ==
    <<[max_percentage |-> 25000, enabled |-> TRUE, error_message |-> <<>>]>>

\* the two versions a rule is given: the document type with its rule list.
\* A rule is created active in the first version, so that a stored rule of
\* the second version has been updated.
RuleVersions == {<<CPF, StoredRuleList>>, <<DNI, StrictRuleList>>}

CountryRuleCreate ==
    {[country |-> c, required_document_type |-> v[1], is_active |-> b,
      validation_rules |-> v[2]] :
        c \in {BRAZIL, SPAIN}, v \in {<<CPF, StoredRuleList>>}, b \in {TRUE}}

\* CountryRuleUpdate after model_dump(exclude_unset, exclude_none): the fields
\* that are set.  NoUpdate sets none; the others set the document type with
\* the rule list, the active flag, or the description, which a stored rule of
\* the model, like its timestamps, does not carry
NoUpdate ==
    [required_document_type |-> <<>>, description |-> <<>>, is_active |-> <<>>,
     validation_rules |-> <<>>]

CountryRuleUpdate ==
    {NoUpdate}
    \cup {[NoUpdate EXCEPT !.required_document_type = <<v[1]>>,
                           !.validation_rules = <<v[2]>>] : v \in RuleVersions}
    \cup {[NoUpdate EXCEPT !.is_active = <<b>>] : b \in BOOLEAN}
    \cup {[NoUpdate EXCEPT !.description = <<"Reglas nuevas">>]}

\* CreditRequestCreate: requested_amount > 0, monthly_income > 0 and a
\* document of 1 to 50 characters; here 26% of an income of 5000, which the
\* 30% cap allows and the 25% cap refuses
CreditRequestCreate ==
    [country : {BRAZIL}, full_name : {"Maria Silva"}, email : {"maria@example.com"},
     identity_document : {CPF_FORMATTED}, requested_amount : {1300},
     monthly_income : {5000}]

COUNTRY_CURRENCY_MAP(country) ==
    CASE country = BRAZIL   -> "BRL"
      [] country = MEXICO   -> "MXN"
      [] country = PORTUGAL -> "EUR"
      [] country = SPAIN    -> "EUR"
      [] country = ITALY    -> "EUR"
      [] country = COLOMBIA -> "COP"

\* the first rule of the country, deleted or not
get_by_country_AnyVersion(rules, country) ==
    LET hits == {i \in 1..Len(rules) : rules[i].country = country}
    IN  IF hits = {} THEN <<>>
        ELSE LET doc == rules[Min(hits)]
             IN  <<[country |-> doc.country,
                    required_document_type |-> doc.required_document_type,
                    is_active |-> doc.is_active,
                    validation_rules |-> doc.validation_rules]>>

\* country_rule_repository.get_by_country: find_one on country and
\* is_active = True, the first such document
get_by_country(rules, country) ==
    LET hits == {i \in 1..Len(rules) : rules[i].country = country /\ rules[i].is_active}
    IN  IF hits = {} THEN <<>>
        ELSE LET doc == rules[Min(hits)]
             IN  <<[country |-> doc.country,
                    required_document_type |-> doc.required_document_type,
                    is_active |-> doc.is_active,
                    validation_rules |-> doc.validation_rules]>>

\* get_by_id of either repository: find_one on _id
get_by_id(docs, id) ==
    LET hits == {i \in 1..Len(docs) : docs[i].id = id}
    IN  IF hits = {} THEN <<>> ELSE <<docs[Min(hits)]>>

\* the stored rule an insert of data makes
Inserted(id, data) ==
    [id |-> id, country |-> data.country,
     required_document_type |-> data.required_document_type,
     is_active |-> data.is_active, validation_rules |-> data.validation_rules]

\* the message of the ValueError of create_country_rule: the f-string shows
\* the member of Country as str() gives it from Python 3.11 on
ActiveRuleExists(country) ==
    "Active country rule already exists for Country."
    \o (CASE country = BRAZIL   -> "BRAZIL"
          [] country = MEXICO   -> "MEXICO"
          [] country = PORTUGAL -> "PORTUGAL"
          [] country = SPAIN    -> "SPAIN"
          [] country = ITALY    -> "ITALY"
          [] country = COLOMBIA -> "COLOMBIA")

Idle == [pc |-> "idle"]

Init ==
    /\ country_rules = <<>>
    /\ credit_requests = <<>>
    /\ next_rule_id = 1
    /\ admin = NoAdminCall
    /\ call = Idle

\* the call goes on to its insert whatever the lookup answers
CheckExistingRule_Unchecked ==
    \E data \in CountryRuleCreate :
        /\ BagCardinality(admin.pending) < MaxPending
        /\ LET creates == {p \in BagToSet(admin.pending) : p.op = "create_country_rule"}
           IN  next_rule_id + BagCardinality([p \in creates |-> admin.pending[p]]) <= MaxRuleIds
        /\ admin' = [admin EXCEPT
                       !.pending = @ (+) SetToBag({[op |-> "create_country_rule",
                                                    data |-> data]})]
        /\ UNCHANGED <<country_rules, credit_requests, call, next_rule_id>>

\* create_country_rule up to its second await: await get_by_country(country);
\* an active rule of the country makes it raise ValueError, otherwise the
\* call goes on to its insert
CheckExistingRule ==
    \E data \in CountryRuleCreate :
        /\ BagCardinality(admin.pending) < MaxPending
        /\ LET creates == {p \in BagToSet(admin.pending) : p.op = "create_country_rule"}
           IN  next_rule_id + BagCardinality([p \in creates |-> admin.pending[p]]) <= MaxRuleIds
        /\ LET existing_rule == get_by_country(country_rules, data.country)
           IN  IF existing_rule /= <<>> /\ existing_rule[1].is_active
               THEN admin' = [admin EXCEPT
                                !.op = "create_country_rule", !.country = data.country,
                                !.raised = <<ActiveRuleExists(data.country)>>,
                                !.returned = <<>>]
               ELSE admin' = [admin EXCEPT
                                !.pending = @ (+) SetToBag({[op |-> "create_country_rule",
                                                             data |-> data]})]
        /\ UNCHANGED <<country_rules, credit_requests, call, next_rule_id>>

\* the rest of create_country_rule: await country_rule_repository.create
InsertCountryRule ==
    \E create \in BagToSet(admin.pending) :
        /\ create.op = "create_country_rule"
        /\ LET country_rule == Inserted(next_rule_id, create.data)
           IN  /\ country_rules' = Append(country_rules, country_rule)
               /\ admin' = [op |-> "create_country_rule", country |-> country_rule.country,
                            raised |-> <<>>, returned |-> <<country_rule>>,
                            pending |-> admin.pending (-) SetToBag({create})]
        /\ next_rule_id' = next_rule_id + 1
        /\ UNCHANGED <<credit_requests, call>>

\* update_country_rule up to its second await: no field set makes it raise
\* ValueError; otherwise await update_one, which sets the fields and
\* updated_at on the rule of the id; with no such rule the call returns None,
\* otherwise it goes on to read the rule back
UpdateCountryRule ==
    \E id \in 0..(next_rule_id - 1), update \in CountryRuleUpdate :
        /\ BagCardinality(admin.pending) < MaxPending
        /\ IF update = NoUpdate
           THEN /\ admin' = [admin EXCEPT
                               !.op = "update_country_rule", !.country = "",
                               !.raised = <<"No fields to update">>, !.returned = <<>>]
                /\ UNCHANGED country_rules
           ELSE IF id \notin RuleIds
           THEN /\ admin' = [admin EXCEPT
                               !.op = "update_country_rule", !.country = "",
                               !.raised = <<>>, !.returned = <<>>]
                /\ UNCHANGED country_rules
           ELSE /\ country_rules' =
                       [i \in 1..Len(country_rules) |->
                           IF country_rules[i].id /= id THEN country_rules[i]
                           ELSE [country_rules[i] EXCEPT
                                   !.required_document_type =
                                       IF update.required_document_type = <<>> THEN @
                                       ELSE update.required_document_type[1],
                                   !.is_active =
                                       IF update.is_active = <<>> THEN @
                                       ELSE update.is_active[1],
                                   !.validation_rules =
                                       IF update.validation_rules = <<>> THEN @
                                       ELSE update.validation_rules[1]]]
                /\ admin' = [admin EXCEPT
                               !.pending = @ (+) SetToBag({[op |-> "update_country_rule",
                                                            id |-> id]})]
        /\ UNCHANGED <<credit_requests, call, next_rule_id>>

\* the rest of update_country_rule: return await self.get_by_id(rule_id)
ReadUpdatedCountryRule ==
    \E update \in BagToSet(admin.pending) :
        /\ update.op = "update_country_rule"
        /\ admin' = [op |-> "update_country_rule", country |-> "", raised |-> <<>>,
                     returned |-> get_by_id(country_rules, update.id),
                     pending |-> admin.pending (-) SetToBag({update})]
        /\ UNCHANGED <<country_rules, credit_requests, call, next_rule_id>>

\* delete_country_rule: the soft delete, one update_one; it returns whether
\* a rule was modified
DeleteCountryRule ==
    \E id \in 0..(next_rule_id - 1) :
        /\ country_rules' = [i \in 1..Len(country_rules) |->
                                IF country_rules[i].id = id
                                THEN [country_rules[i] EXCEPT !.is_active = FALSE]
                                ELSE country_rules[i]]
        /\ admin' = [admin EXCEPT
                       !.op = "delete_country_rule", !.country = "", !.raised = <<>>,
                       !.returned = <<id \in RuleIds>>]
        /\ UNCHANGED <<credit_requests, call, next_rule_id>>

\* hard_delete_country_rule: one delete_one; it returns whether a rule was
\* deleted
HardDeleteCountryRule ==
    \E id \in 0..(next_rule_id - 1) :
        /\ country_rules' = SelectSeq(country_rules, LAMBDA doc : doc.id /= id)
        /\ admin' = [admin EXCEPT
                       !.op = "hard_delete_country_rule", !.country = "", !.raised = <<>>,
                       !.returned = <<id \in RuleIds>>]
        /\ UNCHANGED <<credit_requests, call, next_rule_id>>

\* create_credit_request is called
CallCreateCreditRequest ==
    \E data \in CreditRequestCreate :
        /\ call.pc = "idle"
        /\ call' = [pc |-> "lookup", user_id |-> "507f1f77bcf86cd799439011",
                    candidate |-> data, country_rule |-> <<>>, outcome |-> <<>>,
                    raised |-> <<>>]
        /\ UNCHANGED <<country_rules, credit_requests, next_rule_id, admin>>

\* validate_country_rules: await get_country_rule_by_country(country)
LookupCountryRule ==
    /\ call.pc = "lookup"
    /\ call' = [call EXCEPT !.pc = "validate",
                            !.country_rule = get_by_country(country_rules,
                                                            call.candidate.country)]
    /\ UNCHANGED <<country_rules, credit_requests, next_rule_id, admin>>

\* the ValidationError is swallowed and the creation goes on
AfterValidation_Swallowed(outcome) == "insert"

\* except ValidationError: raise
AfterValidation(outcome) == IF outcome.raised THEN "raised" ELSE "insert"

\* the document is checked against the rule the call read and the amount
\* against the rule list the store holds by now
ValidateRequest_MixedVersions ==
    /\ call.pc = "validate"
    /\ LET current == get_by_country(country_rules, call.candidate.country)
           mixed   == IF call.country_rule = <<>> \/ current = <<>>
                      THEN call.country_rule
                      ELSE <<[call.country_rule[1] EXCEPT
                                !.validation_rules = current[1].validation_rules]>>
       IN  \E outcome \in {validate_country_rules(
                                mixed, call.candidate.country,
                                call.candidate.identity_document,
                                call.candidate.requested_amount,
                                call.candidate.monthly_income)} :
               call' = [call EXCEPT
                          !.pc = AfterValidation(outcome), !.outcome = <<outcome>>,
                          !.raised = IF outcome.raised THEN <<ValidationErrorOf(outcome)>>
                                     ELSE <<>>]
    /\ UNCHANGED <<country_rules, credit_requests, next_rule_id, admin>>

\* the rest of validate_country_rules, up to the next await of
\* create_credit_request
ValidateRequest ==
    /\ call.pc = "validate"
    /\ \E outcome \in {validate_country_rules(
                            call.country_rule, call.candidate.country,
                            call.candidate.identity_document,
                            call.candidate.requested_amount,
                            call.candidate.monthly_income)} :
           call' = [call EXCEPT
                      !.pc = AfterValidation(outcome), !.outcome = <<outcome>>,
                      !.raised = IF outcome.raised THEN <<ValidationErrorOf(outcome)>>
                                 ELSE <<>>]
    /\ UNCHANGED <<country_rules, credit_requests, next_rule_id, admin>>

\* CreditRequestInDB(**fields): pydantic raises its ValidationError, a
\* ValueError, when a field that has no default is not given
CreditRequestInDB(fields) ==
    LET missing == {"country", "full_name", "email", "identity_document", "requested_amount",
                    "monthly_income", "user_id", "currency_code"} \ DOMAIN fields
    IN  IF missing = {} THEN [built |-> <<fields>>, raised |-> <<>>]
        ELSE [built  |-> <<>>,
              raised |-> <<MissingField("CreditRequestInDB", CHOOSE f \in missing : TRUE)>>]

\* the rest of create_credit_request: the CreditRequestInDB is built from
\* the fields of lines 178-191, which leave the email out, and only then
\* await credit_request_repository.create(credit_request)
InsertCreditRequest ==
    /\ call.pc = "insert"
    /\ LET data           == call.candidate
           credit_request ==
               CreditRequestInDB(
                   [user_id           |-> call.user_id,
                    country           |-> data.country,
                    currency_code     |-> COUNTRY_CURRENCY_MAP(data.country),
                    full_name         |-> data.full_name,
                    identity_document |-> data.identity_document,
                    requested_amount  |-> data.requested_amount,
                    monthly_income    |-> data.monthly_income,
                    status            |-> "pending"])
       IN  IF credit_request.raised /= <<>>
           THEN /\ call' = [call EXCEPT !.pc = "raised", !.raised = credit_request.raised]
                /\ UNCHANGED <<credit_requests, next_rule_id>>
           ELSE /\ credit_requests' =
                       Append(credit_requests, [id |-> next_rule_id] @@ credit_request.built[1])
                /\ next_rule_id' = next_rule_id + 1
                /\ call' = [call EXCEPT !.pc = "created"]
    /\ UNCHANGED <<country_rules, admin>>

\* the call is over: an error was raised, or the request was logged to the
\* logs collection (which nothing modelled here reads) and returned
ReturnToCaller ==
    /\ call.pc \in {"created", "raised"}
    /\ call' = Idle
    /\ UNCHANGED <<country_rules, credit_requests, next_rule_id, admin>>

Next ==
    \/ CheckExistingRule
    \/ InsertCountryRule
    \/ UpdateCountryRule
    \/ ReadUpdatedCountryRule
    \/ DeleteCountryRule
    \/ HardDeleteCountryRule
    \/ CallCreateCreditRequest
    \/ LookupCountryRule
    \/ ValidateRequest
    \/ InsertCreditRequest
    \/ ReturnToCaller

Spec == Init /\ [][Next]_vars

(***************************************************************************)
(* SpecDocument: the six validators of utils/document_validator.py, each   *)
(* called on a document and on the same document written another way.      *)
(***************************************************************************)
MaxInsertions == 1

\* the documents: those of tests/unit/utils/test_document_validator.py, check
\* digits that the remainder rule makes 0, wrong lengths and characters, and
\* documents a line feed and a dash end
NIF_VALID == <<"1", "2", "3", "4", "5", "6", "7", "8", "9">>
NIF_WRONG_CHECK == <<"1", "2", "3", "4", "5", "6", "7", "8", "8">>
CPF_VALID == <<"1", "2", "3", "4", "5", "6", "7", "8", "9", "0", "9">>
CPF_CHECKS_ZERO == <<"1", "0", "0", "0", "0", "0", "0", "3", "7", "0", "0">>
CPF_WRONG_FIRST == <<"1", "2", "3", "4", "5", "6", "7", "8", "9", "1", "9">>
CPF_WRONG_BOTH == <<"1", "2", "3", "4", "5", "6", "7", "8", "9", "1", "0">>
CURP_VALID == <<"A", "B", "C", "D", "1", "2", "3", "4", "5", "6", "H", "D", "F", "X", "Y", "Z", "0", "1">>
CODICE_VALID == <<"R", "S", "S", "M", "R", "A", "8", "0", "A", "0", "1", "H", "5", "0", "1", "U">>
CEDULA_8 == <<"1", "2", "3", "4", "5", "6", "7", "8">>

\* the ways a document is written: separators put in, letters in lower case
RECURSIVE WithInsertions(_, _)
WithInsertions(s, n) ==
    IF n = 0 THEN {s}
    ELSE LET fewer == WithInsertions(s, n - 1)
             Separators == {" ", "-", "."}
             InsertAt(e, p, c) == SubSeq(e, 1, p) \o <<c>> \o SubSeq(e, p + 1, Len(e))
         IN  fewer \cup UNION {{InsertAt(e, p, c) : p \in 0..Len(e), c \in Separators} :
                                  e \in fewer}

\* s with the letters of UpperChars in lower case: a document or a label as a
\* caller may write it
Lower(s) ==
    LET LowerChar(c) ==
            IF \E i \in 1..Len(UpperChars) : UpperChars[i] = c
            THEN LowerChars[CHOOSE i \in 1..Len(UpperChars) : UpperChars[i] = c]
            ELSE c
    IN  [i \in 1..Len(s) |-> LowerChar(s[i])]

\* call.documents are the document and its rewriting, call.verdicts the tuples
\* (is_valid, error_message) the validator has returned for them so far
InitDocument ==
    /\ country_rules = <<>>
    /\ credit_requests = <<>>
    /\ next_rule_id = 1
    /\ admin = NoAdminCall
    /\ LET \* the documents a validator is called on
           ValidatorDocuments(v) ==
               CASE v = "validate_dni_spain" ->
                       {DNI_VALID,
                        DNI_WRONG_LETTER,
                        <<"0", "0", "0", "0", "0", "0", "0", "0", "T">>,  \* dni zero
                        <<"1", "2", "3", "4", "5", "6", "7", "Z">>,  \* dni short
                        <<"1", "2", "3", "4", "5", "6", "7", "8", "9">>,  \* dni no letter
                        <<"1", "2", "3", "4", "5", "6", "7", "8", "Z", "\n", "-">>,  \* dni newline
                        <<"0", "0", "0", "0", "0", "0", "1", "5", "U+017F">>}  \* the long s, S in upper case
                 [] v = "validate_nif_portugal" ->
                       {NIF_VALID,
                        <<"1", "0", "0", "0", "0", "0", "0", "1", "0">>,  \* nif check zero
                        NIF_WRONG_CHECK,
                        <<"1", "2", "3", "4", "5", "6", "7", "8">>,  \* nif short
                        <<"1", "2", "3", "4", "5", "6", "7", "8", "X">>,  \* nif letter
                        <<"1", "2", "3", "4", "5", "6", "7", "8", "8", "\n", "-">>}  \* nif newline
                 [] v = "validate_cpf_brazil" ->
                       {CPF_VALID,
                        CPF_CHECKS_ZERO,
                        <<"1", "1", "1", "1", "1", "1", "1", "1", "1", "1", "1">>,  \* cpf all same
                        <<"1", "2", "3", "4", "5", "6", "7", "8", "9", "0", "0">>,  \* cpf wrong second
                        CPF_WRONG_FIRST,
                        CPF_WRONG_BOTH,
                        <<"1", "2", "3", "4", "5", "6", "7", "8", "9", "0">>,  \* cpf ten
                        <<"1", "2", "3", "4", "5", "6", "7", "8", "9", "0", "9", "\n", "-">>,  \* cpf newline
                        CPF_VALID \o <<"\r">>}
                 [] v = "validate_curp_mexico" ->
                       {CURP_VALID,
                        <<"A", "B", "C", "D", "1", "2", "3", "4", "5", "6", "X", "D", "F", "X", "Y", "Z", "0", "1">>,  \* curp wrong sex
                        <<"A", "B", "C", "D", "1", "2", "3", "4", "5", "6", "H", "D", "F", "X", "Y", "Z", "0">>,  \* curp short
                        <<"A", "B", "C", "D", "1", "2", "3", "4", "5", "6", "H", "D", "F", "X", "Y", "Z", "0", "1", "\n", "-">>,  \* curp newline
                        <<"A", "B", "C", "D", "1", "2", "3", "4", "5", "6", "H", "D", "F", "X", "Y", "ß", "1">>}  \* 17 characters, 18 in upper case
                 [] v = "validate_codice_fiscale_italy" ->
                       {CODICE_VALID,
                        <<"1", "2", "3", "4", "5", "6", "7", "8", "9", "0", "1", "2", "3", "4", "5", "6">>,  \* codice digits
                        <<"R", "S", "S", "M", "R", "A", "8", "0", "A", "0", "1", "H", "5", "0", "1">>,  \* codice short
                        <<"R", "S", "S", "M", "R", "A", "8", "0", "A", "0", "1", "H", "5", "0", "1", "U", "\n", "-">>}  \* codice newline
                 [] v = "validate_cedula_colombia" ->
                       {CEDULA_8,
                        <<"1", "2", "3", "4", "5", "6", "7", "8", "9", "0">>,  \* cedula 10
                        <<"1", "2", "3", "4", "5", "6", "7">>,  \* cedula 7
                        <<"1", "2", "3", "4", "5", "6", "7", "8", "9", "0", "1">>,  \* cedula 11
                        <<"1", "2", "3", "4", "5", "6", "7", "A">>,  \* cedula letter
                        <<"1", "2", "3", "4", "5", "6", "7", "8", "\n", "-">>}  \* cedula newline
           \* the ways a document is written
           Rewritings(document) ==
               WithInsertions(document, MaxInsertions)
                   \cup WithInsertions(Lower(document), MaxInsertions)
       IN  \E v \in {validators[i].v : i \in 1..Len(validators)} :
           \E document \in ValidatorDocuments(v) :
           \E rewriting \in Rewritings(document) :
               call = [pc |-> "called", validator |-> v,
                       documents |-> <<document, rewriting>>, verdicts |-> <<>>]

\* one call of the validator, on the next of the two documents
CallValidator ==
    /\ call.pc = "called"
    /\ LET document == call.documents[Len(call.verdicts) + 1]
       IN  call' = [call EXCEPT
                      !.verdicts = Append(@, ApplyValidator(call.validator, document)),
                      !.pc = IF Len(call.verdicts) = 1 THEN "returned" ELSE "called"]
    /\ UNCHANGED <<country_rules, credit_requests, next_rule_id, admin>>

NextDocument == CallValidator

SpecDocument == InitDocument /\ [][NextDocument]_vars

(***************************************************************************)
(* SpecDispatch: validate_document_format called on a country, a declared  *)
(* document type and a document.                                           *)
(***************************************************************************)
MaxPadding == 1

\* DocumentType.CODICE_FISCALE and DocumentType.CC, as the default rules and
\* the tests write them
CODICE_FISCALE_LABEL == <<"C", "o", "d", "i", "c", "e", " ", "F", "i", "s", "c", "a", "l", "e">>
CEDULA_LABEL ==
    <<"C", "é", "d", "u", "l", "a", " ", "d", "e", " ",
      "C", "i", "u", "d", "a", "d", "a", "n", "í", "a">>

\* ONE_EXAMPLE_PER_COUNTRY_CLEAN, each example as the str the dispatcher reads
CleanExample(country) ==
    CASE country = SPAIN    -> DNI_VALID
      [] country = PORTUGAL -> NIF_VALID
      [] country = BRAZIL   -> CPF_VALID
      [] country = MEXICO   -> CURP_VALID
      [] country = ITALY    -> CODICE_VALID
      [] country = COLOMBIA -> CEDULA_8

\* declared types: the labels of the table and of the default rules, in either
\* case, labels that contain one or are contained in one, the empty label,
\* and labels of no table entry
UNKNOWN_LABEL == <<"U", "n", "k", "n", "o", "w", "n">>

\* documents: the example of each country, documents its validator refuses,
\* documents of 2, 3, 50 and 51 characters, blank ones, and one that a
\* carriage return ends
FIFTY_ONE_CHARS == [i \in 1..51 |-> "A"]
BLANK == <<"\t", "\n">>

\* s with up to n spaces before it and after it
Padded(s, n) ==
    {[i \in 1..a |-> " "] \o s \o [i \in 1..b |-> " "] : a \in 0..n, b \in 0..n}

InitDispatch ==
    /\ country_rules = <<>>
    /\ credit_requests = <<>>
    /\ next_rule_id = 1
    /\ admin = NoAdminCall
    /\ LET known == {DNI, NIF, CPF, CURP, CODICE_FISCALE_LABEL, CEDULA_LABEL, CEDULA_PLAIN, CC}
           Labels ==
               known \cup {Lower(l) : l \in known}
                     \cup {<<"D", "N", "I", "/", "N", "I", "E">>,  \* "DNI/NIE"
                           <<"C", "E", "D", "U", "L", "A">>,  \* "CEDULA"
                           <<"C">>, <<"I">>, <<>>, UNKNOWN_LABEL,
                           <<"P", "A", "S", "S", "P", "O", "R", "T">>,  \* "PASSPORT"
                           \* labels that upper() lengthens or leaves ASCII
                           <<"D", "N", "I", "ÿ">>,
                           <<"C", "e", "d", "u", "l", "a", " ", "d", "e", " ",
                             "C", "i", "u", "d", "a", "d", "a", "n", "i", "ẚ">>}
           DispatchDocuments ==
               {CleanExample(c) : c \in Country}
                   \cup {CPF_FORMATTED, DNI_WRONG_LETTER, NIF_WRONG_CHECK, CPF_WRONG_FIRST}
                   \cup {<<"A", "B">>, <<"A", "B", "C">>, [i \in 1..50 |-> "A"],
                         FIFTY_ONE_CHARS, <<>>, BLANK,
                         <<"\r", "", " ">>,       \* blank: U+000D, U+000B, U+00A0
                         DNI_VALID \o <<"\r">>,
                         <<"1", "2", "3", "4", "5", "6", "7">>}
       IN  \E country \in Country, label \in Labels, doc \in DispatchDocuments :
           \E document_type \in Padded(label, MaxPadding), document \in Padded(doc, MaxPadding) :
               call = [pc |-> "called", country |-> country, document_type |-> document_type,
                       document |-> document, returned |-> <<>>]

\* one call of validate_document_format; call.returned is the tuple
\* (is_valid, error_message)
CallValidateDocumentFormat ==
    /\ call.pc = "called"
    /\ call' = [call EXCEPT
                  !.returned = <<validate_document_format(call.country, call.document_type,
                                                          call.document)>>,
                  !.pc = "returned"]
    /\ UNCHANGED <<country_rules, credit_requests, next_rule_id, admin>>

NextDispatch == CallValidateDocumentFormat

SpecDispatch == InitDispatch /\ [][NextDispatch]_vars

(***************************************************************************)
(* SpecRepeat: validate_country_rules called twice with the same arguments *)
(* on a store the administration may change between the two calls.         *)
(***************************************************************************)
\* the country_rules collection when the first call is made: empty, or one
\* rule of the country in either version, active or deleted
Stores(country) ==
    {<<>>} \cup
    {<<[id |-> 1, country |-> country, required_document_type |-> v[1],
        is_active |-> b, validation_rules |-> v[2]]>> : v \in RuleVersions, b \in BOOLEAN}

\* call.lookups are the answers of get_country_rule_by_country to the calls
\* made so far, call.outcomes their outcomes
InitRepeat ==
    /\ credit_requests = <<>>
    /\ admin = NoAdminCall
    /\ \E cand \in Candidates : \E store \in Stores(cand.country) :
          /\ country_rules = store
          /\ next_rule_id = Len(store) + 1
          /\ call = [pc |-> "called", candidate |-> cand, lookups |-> <<>>, outcomes |-> <<>>]

\* a call that stores the candidate it has validated
CallValidateCountryRules_Persisting ==
    /\ call.pc = "called"
    /\ LET lookup  == get_by_country(country_rules, call.candidate.country)
           outcome == validate_country_rules(
                          lookup, call.candidate.country,
                          call.candidate.identity_document,
                          call.candidate.requested_amount,
                          call.candidate.monthly_income)
       IN  /\ call' = [call EXCEPT
                         !.lookups = Append(@, lookup),
                         !.outcomes = Append(@, outcome),
                         !.pc = IF Len(call.outcomes) = 1 THEN "returned" ELSE "called"]
           /\ credit_requests' = IF outcome.raised THEN credit_requests
                                 ELSE Append(credit_requests, call.candidate)
    /\ UNCHANGED <<country_rules, next_rule_id, admin>>

\* one call of validate_country_rules, from the lookup to the return or the
\* raise
CallValidateCountryRules ==
    /\ call.pc = "called"
    /\ LET lookup  == get_by_country(country_rules, call.candidate.country)
           outcome == validate_country_rules(
                          lookup, call.candidate.country,
                          call.candidate.identity_document,
                          call.candidate.requested_amount,
                          call.candidate.monthly_income)
       IN  call' = [call EXCEPT
                      !.lookups = Append(@, lookup),
                      !.outcomes = Append(@, outcome),
                      !.pc = IF Len(call.outcomes) = 1 THEN "returned" ELSE "called"]
    /\ UNCHANGED <<country_rules, credit_requests, next_rule_id, admin>>

NextRepeat ==
    \/ CallValidateCountryRules
    \/ UpdateCountryRule
    \/ ReadUpdatedCountryRule
    \/ DeleteCountryRule

SpecRepeat == InitRepeat /\ [][NextRepeat]_vars

(***************************************************************************)
(* SpecRequests: the credit_requests collection under the functions that   *)
(* write it, beside a create_credit_request, one step per await.           *)
(***************************************************************************)
MaxRequests == 2

InitRequests ==
    /\ country_rules \in Stores(BRAZIL)
    /\ credit_requests = <<>>
    /\ next_rule_id = Len(country_rules) + 1
    /\ admin = NoAdminCall
    /\ call = Idle

\* CreditRequestRepository.create of a CreditRequestInDB that has its fields,
\* as the tests of the repository build it: one insert_one
CreateStoredRequest ==
    \E data \in CreditRequestCreate :
        /\ next_rule_id - Len(country_rules) <= MaxRequests
        /\ LET credit_request ==
                   CreditRequestInDB(
                       [user_id           |-> "507f1f77bcf86cd799439011",
                        country           |-> data.country,
                        currency_code     |-> COUNTRY_CURRENCY_MAP(data.country),
                        full_name         |-> data.full_name,
                        email             |-> data.email,
                        identity_document |-> data.identity_document,
                        requested_amount  |-> data.requested_amount,
                        monthly_income    |-> data.monthly_income,
                        status            |-> "pending",
                        bank_information  |-> <<>>])
               stored == [id |-> next_rule_id] @@ credit_request.built[1]
           IN  /\ credit_request.raised = <<>>
               /\ credit_requests' = Append(credit_requests, stored)
               /\ admin' = [admin EXCEPT
                              !.op = "credit_request_repository.create", !.country = "",
                              !.raised = <<>>, !.returned = <<stored>>]
        /\ next_rule_id' = next_rule_id + 1
        /\ UNCHANGED <<country_rules, call>>

\* update_credit_request_status up to the second await of the repository's
\* update: await update_one, which sets the status, bank_information when it
\* is given, and updated_at on the request of the id; with no such request
\* the call returns None, otherwise it goes on to read the request back
UpdateCreditRequestStatus ==
    \E id \in 0..(next_rule_id - 1),
       \* new_status, and with an approval model_dump() of
       \* BankInformation(bank_name="Banco do Brasil"): its seven fields, None
       \* but for the name
       update \in {<<"in_review", <<>>>>,
                   <<"approved", <<[bank_name |-> <<"Banco do Brasil">>, account_number |-> <<>>,
                                    account_type |-> <<>>, routing_number |-> <<>>,
                                    iban |-> <<>>, swift |-> <<>>, provider_data |-> <<>>]>>>>,
                   <<"rejected", <<>>>>} :
        /\ BagCardinality(admin.pending) < MaxPending
        /\ IF get_by_id(credit_requests, id) = <<>>
           THEN /\ admin' = [admin EXCEPT
                               !.op = "update_credit_request_status", !.country = "",
                               !.raised = <<>>, !.returned = <<>>]
                /\ UNCHANGED credit_requests
           ELSE /\ credit_requests' =
                       [i \in 1..Len(credit_requests) |->
                           IF credit_requests[i].id /= id THEN credit_requests[i]
                           ELSE [credit_requests[i] EXCEPT
                                   !.status = update[1],
                                   !.bank_information = IF update[2] = <<>> THEN @
                                                        ELSE update[2]]]
                /\ admin' = [admin EXCEPT
                               !.pending = @ (+) SetToBag({[op |-> "update_credit_request_status",
                                                            id |-> id]})]
        /\ UNCHANGED <<country_rules, call, next_rule_id>>

\* the rest of update_credit_request_status: return await self.get_by_id
ReadUpdatedCreditRequest ==
    \E update \in BagToSet(admin.pending) :
        /\ update.op = "update_credit_request_status"
        /\ admin' = [op |-> "update_credit_request_status", country |-> "", raised |-> <<>>,
                     returned |-> get_by_id(credit_requests, update.id),
                     pending |-> admin.pending (-) SetToBag({update})]
        /\ UNCHANGED <<country_rules, credit_requests, call, next_rule_id>>

\* CreditRequestRepository.delete: one delete_one; it returns whether a
\* request was deleted
DeleteCreditRequest ==
    \E id \in 0..(next_rule_id - 1) :
        /\ credit_requests' = SelectSeq(credit_requests, LAMBDA doc : doc.id /= id)
        /\ admin' = [admin EXCEPT
                       !.op = "credit_request_repository.delete", !.country = "",
                       !.raised = <<>>, !.returned = <<get_by_id(credit_requests, id) /= <<>>>>]
        /\ UNCHANGED <<country_rules, call, next_rule_id>>

\* clear_all_credit_requests: one delete_many({}); it returns the number of
\* requests deleted
ClearAllCreditRequests ==
    /\ credit_requests' = <<>>
    /\ admin' = [admin EXCEPT
                   !.op = "clear_all_credit_requests", !.country = "", !.raised = <<>>,
                   !.returned = <<Len(credit_requests)>>]
    /\ UNCHANGED <<country_rules, call, next_rule_id>>

\* generate_random_credit_requests: each round builds a CreditRequestInDB
\* from the fields of lines 123-137, which leave the user_id out, so that the
\* exception of pydantic is logged before the await of the round and the next
\* round begins; the call ends without an await and returns the requests it
\* created
GenerateRandomCreditRequests ==
    \E country \in Country, status \in {"pending", "in_review", "approved", "rejected"} :
        /\ LET credit_request ==
                   CreditRequestInDB(
                       [id                |-> next_rule_id,
                        country           |-> country,
                        currency_code     |-> COUNTRY_CURRENCY_MAP(country),
                        full_name         |-> "Maria Silva",
                        email             |-> "maria.silva@example.com",
                        identity_document |-> CleanExample(country),
                        requested_amount  |-> 1300,
                        monthly_income    |-> 5000,
                        status            |-> status,
                        bank_information  |-> <<>>])
               created_requests == IF credit_request.raised /= <<>> THEN <<>>
                                   ELSE credit_request.built
           IN  /\ credit_requests' = credit_requests \o created_requests
               /\ next_rule_id' = next_rule_id + Len(created_requests)
               /\ admin' = [admin EXCEPT
                              !.op = "generate_random_credit_requests", !.country = "",
                              !.raised = <<>>, !.returned = <<created_requests>>]
        /\ UNCHANGED <<country_rules, call>>

NextRequests ==
    \/ CallCreateCreditRequest
    \/ LookupCountryRule
    \/ ValidateRequest
    \/ InsertCreditRequest
    \/ ReturnToCaller
    \/ CreateStoredRequest
    \/ UpdateCreditRequestStatus
    \/ ReadUpdatedCreditRequest
    \/ DeleteCreditRequest
    \/ ClearAllCreditRequests
    \/ GenerateRandomCreditRequests

SpecRequests == InitRequests /\ [][NextRequests]_vars

(***************************************************************************)
(* SpecEndpoint: create_request of controllers/credit_request_controller.py *)
(* over create_credit_request as the service defines it, and over the      *)
(* stand-ins that raise in its place in the controller tests.              *)
(***************************************************************************)
\* what a stand-in for create_credit_request does in the controller tests:
\* it returns a request, or raises a ValueError, an exception of a class
\* derived from ValueError, an exception of another class, or the
\* ValidationError of the candidate when the rule refuses it
SideEffects(outcome) ==
    {RaisedException(<<"none">>, ""),
     RaisedException(<<"ValueError", "Exception", "BaseException">>, "Invalid country"),
     RaisedException(<<"UnicodeError", "ValueError", "Exception", "BaseException">>, "bad text"),
     RaisedException(<<"binascii.Error", "ValueError", "Exception", "BaseException">>,
                     "Incorrect padding"),
     RaisedException(<<"RuntimeError", "Exception", "BaseException">>, "connection refused")}
    \cup (IF outcome.raised THEN {ValidationErrorOf(outcome)} ELSE {})

\* create_credit_request called with the arguments of names passed and, for
\* user_id, the str of an ObjectId: the exception the call ends with.  A
\* parameter without a default that is not passed makes the call raise
\* TypeError before the body runs; a failed validation is raised again; and
\* after a validation that succeeds the call CreditRequestInDB(...) of line
\* 178 passes no email, which the model requires, so that the call never
\* reaches the insert and never returns.
create_credit_request_raises(passed, lookup, data) ==
    LET missing == {"user_id", "credit_request_data"} \ passed
        outcome == validate_country_rules(lookup, data.country, data.identity_document,
                                          data.requested_amount, data.monthly_income)
    IN  IF missing = {"user_id", "credit_request_data"}
        THEN RaisedException(<<"TypeError", "Exception", "BaseException">>,
                 "create_credit_request() missing 2 required positional arguments: "
                 \o "'user_id' and 'credit_request_data'")
        ELSE IF missing /= {}
        THEN RaisedException(<<"TypeError", "Exception", "BaseException">>,
                 "create_credit_request() missing 1 required positional argument: '"
                 \o (CHOOSE name \in missing : TRUE) \o "'")
        ELSE IF outcome.raised THEN ValidationErrorOf(outcome)
        ELSE MissingField("CreditRequestInDB", "email")

\* the response of create_request: the HTTPException of the except clause
\* that catches the exception, the clauses tried in their order.  When
\* create_credit_request returns a request, CreditRequestResponse(...) of
\* lines 64-78 passes no user_id, which the model requires: the exception of
\* pydantic, a ValueError, is caught as any other and no 201 is answered.
\* An exception that no clause catches leaves create_request as it is.
create_request_response(exception) ==
    LET caught == IF exception.type = "none"
                  THEN MissingField("CreditRequestResponse", "user_id")
                  ELSE exception
    IN  CASE "ValidationError" \in caught.bases ->
                [status_code |-> 400,
                 detail |-> [message |-> caught.message,
                             rule_details |-> caught.rule_details]]
          [] "ValueError" \in caught.bases ->
                [status_code |-> 400, detail |-> [text |-> caught.message]]
          [] "Exception" \in caught.bases ->
                [status_code |-> 500, detail |-> [text |-> "Error creating credit request"]]
          [] OTHER -> [raised |-> caught]

\* the candidates are CreditRequestCreate as the endpoint receives it:
\* requested_amount > 0 and monthly_income > 0.  call.service is <<>> for
\* create_credit_request itself and <<side_effect>> for a stand-in
InitEndpoint ==
    /\ credit_requests = <<>>
    /\ admin = NoAdminCall
    /\ \E cand \in {c \in Candidates : c.requested_amount > 0 /\ c.monthly_income > 0} :
       \E store \in Stores(cand.country) :
          /\ country_rules = store
          /\ next_rule_id = Len(store) + 1
          /\ \E outcome \in {validate_country_rules(
                                  get_by_country(store, cand.country), cand.country,
                                  cand.identity_document, cand.requested_amount,
                                  cand.monthly_income)} :
             \E service \in {<<>>} \cup {<<e>> : e \in SideEffects(outcome)} :
                call = [pc |-> "called", candidate |-> cand, service |-> service,
                        response |-> <<>>]

\* create_request, from the call of create_credit_request to the response;
\* neither collection is written
CreateRequest ==
    /\ call.pc = "called"
    /\ \E exception \in
              {IF call.service /= <<>> THEN call.service[1]
               ELSE create_credit_request_raises(
                        {"credit_request_data", "bank_information"},
                        get_by_country(country_rules, call.candidate.country),
                        call.candidate)} :
           call' = [call EXCEPT !.pc = "responded",
                                !.response = <<create_request_response(exception)>>]
    /\ UNCHANGED <<country_rules, credit_requests, next_rule_id, admin>>

NextEndpoint == CreateRequest

SpecEndpoint == InitEndpoint /\ [][NextEndpoint]_vars

(***************************************************************************)
(* SpecStartup: core/init_country_rules.py, run at startup and run again,  *)
(* one step per await; the two runs may be in progress together.           *)
(***************************************************************************)
DefaultRule(country, required_document_type, max_percentage, error_message) ==
    [country |-> country, required_document_type |-> required_document_type,
     is_active |-> TRUE,
     validation_rules |-> <<[max_percentage |-> max_percentage, enabled |-> TRUE,
                             error_message |-> <<error_message>>]>>]

\* default_rules, in the order of the list
default_rules ==
    << DefaultRule(SPAIN, DNI, 30000,
                   "El monto solicitado no puede exceder el 30% del ingreso mensual"),
       DefaultRule(PORTUGAL, NIF, 30000,
                   "El monto solicitado no puede exceder el 30% del ingreso mensual"),
       DefaultRule(ITALY, CODICE_FISCALE_LABEL, 35000,
                   "El monto solicitado no puede exceder el 35% del ingreso mensual"),
       DefaultRule(MEXICO, CURP, 40000,
                   "El monto solicitado no puede exceder el 40% del ingreso mensual"),
       DefaultRule(COLOMBIA, CEDULA_LABEL, 50000,
                   "El monto solicitado no puede exceder el 50% del ingreso mensual"),
       DefaultRule(BRAZIL, CPF, 35000,
                   "O valor solicitado não pode exceder 35% da renda mensal") >>

\* the store a startup finds: no rule, a deleted rule or an active rule for
\* Spain, for Brazil, and for each of the four countries between them in
\* default_rules alike, none of them a default rule
StartupStores ==
    {SelectSeq([k \in 1..Len(default_rules) |->
                   [id |-> k, country |-> default_rules[k].country,
                    required_document_type |-> CPF, is_active |-> (state[k] = "active"),
                    validation_rules |-> StoredRuleList]],
               LAMBDA doc : state[doc.id] /= "none") :
        state \in {s \in [1..Len(default_rules) -> {"none", "deleted", "active"}] :
                      \A k \in 3..(Len(default_rules) - 1) : s[k] = s[2]}}

\* call.runs are the two runs of initialize_default_country_rules: rule is
\* the place of a run in default_rules, pc the await it is at, began what the
\* other run was doing when this one made its first lookup ("no" until
\* then); call.stores are the store at startup and at the end of each run
InitStartup ==
    /\ credit_requests = <<>>
    /\ admin = NoAdminCall
    /\ next_rule_id = Len(default_rules) + 1
    /\ country_rules \in StartupStores
    /\ LET run == [pc |-> "lookup", rule |-> 1, created_count |-> 0, skipped_count |-> 0,
                   began |-> "no"]
       IN  call = [runs |-> <<run, run>>, stores |-> <<country_rules>>]

\* the run goes on to the next entry of default_rules, or ends after the last
NextRule(run) ==
    IF run.rule = Len(default_rules) THEN [run EXCEPT !.pc = "done"]
    ELSE [run EXCEPT !.pc = "lookup", !.rule = @ + 1]

\* the call after a step that leaves the r-th run as run and the store as rules
AfterStep(r, run, rules) ==
    LET other == call.runs[3 - r]
        began == IF call.runs[r].began /= "no" THEN call.runs[r].began
                 ELSE IF other.pc = "done" THEN "after"
                 ELSE IF other.began = "no" THEN "before"
                 ELSE "during"
    IN  [runs   |-> [call.runs EXCEPT ![r] = [run EXCEPT !.began = began]],
         stores |-> IF run.pc = "done" THEN Append(call.stores, rules) ELSE call.stores]

\* existing_rule = await get_country_rule_by_country(rule_data["country"]):
\* a country that has a rule is skipped, for another create_country_rule is
\* called
LookupDefaultRule(r) ==
    LET run           == call.runs[r]
        rule_data     == default_rules[run.rule]
        existing_rule == get_by_country(country_rules, rule_data.country)
    IN  /\ run.pc = "lookup"
        /\ call' = AfterStep(r,
                             IF existing_rule /= <<>>
                             THEN NextRule([run EXCEPT !.skipped_count = @ + 1])
                             ELSE [run EXCEPT !.pc = "check"],
                             country_rules)
        /\ UNCHANGED <<country_rules, credit_requests, next_rule_id, admin>>

\* create_country_rule up to its second await: an active rule of the country
\* makes it raise ValueError, which `except Exception` logs before the run
\* goes on to the next entry
CheckDefaultRule(r) ==
    LET run           == call.runs[r]
        rule_data     == default_rules[run.rule]
        existing_rule == get_by_country(country_rules, rule_data.country)
    IN  /\ run.pc = "check"
        /\ call' = AfterStep(r,
                             IF existing_rule /= <<>> /\ existing_rule[1].is_active
                             THEN NextRule(run)
                             ELSE [run EXCEPT !.pc = "insert"],
                             country_rules)
        /\ UNCHANGED <<country_rules, credit_requests, next_rule_id, admin>>

\* the rest of create_country_rule: await country_rule_repository.create,
\* and created_count += 1
InsertDefaultRule(r) ==
    LET run       == call.runs[r]
        rule_data == default_rules[run.rule]
        rules     == Append(country_rules, Inserted(next_rule_id, rule_data))
    IN  /\ run.pc = "insert"
        /\ country_rules' = rules
        /\ next_rule_id' = next_rule_id + 1
        /\ call' = AfterStep(r, NextRule([run EXCEPT !.created_count = @ + 1]), rules)
        /\ UNCHANGED <<credit_requests, admin>>

\* initialize_default_country_rules: a step of either run
InitializeDefaultCountryRules ==
    \E r \in DOMAIN call.runs :
        \/ LookupDefaultRule(r)
        \/ CheckDefaultRule(r)
        \/ InsertDefaultRule(r)

NextStartup == InitializeDefaultCountryRules

SpecStartup == InitStartup /\ [][NextStartup]_vars

(***************************************************************************)
(* What the claims speak of, read off a returned call.                     *)
(***************************************************************************)
Done == call.pc = "returned"
Cand == call.candidate
Out == call.outcome[1]
ActiveRuleFound == call.country_rule /= <<>> /\ call.country_rule[1].is_active
Rule == call.country_rule[1]
Rules == Rule.validation_rules

\* the errors list the call raised with; empty when it returned
ErrorsOf(out) == IF out.raised THEN out.rule_details[1].errors ELSE <<>>
RatioEntries(out) ==
    SelectSeq(ErrorsOf(out), LAMBDA e : e.rule_type = "amount_to_income_ratio")

DocAccepted ==
    validate_document_format(Cand.country, Rule.required_document_type,
                             Cand.identity_document).ok

\* the percentage the code computes is above the cap of the rule
ComputedAbove(rule) ==
    FGt(FMul(FDiv(Cand.requested_amount, Cand.monthly_income), 100),
        FDiv(rule.max_percentage, 1000))

\* requested_amount / monthly_income * 100 > max_percentage in exact
\* arithmetic (monthly_income > 0; max_percentage is in thousandths)
ExactlyAbove(rule) ==
    LET q  == (100 * Cand.requested_amount) \div Cand.monthly_income
        r  == (100 * Cand.requested_amount) % Cand.monthly_income
        q2 == (1000 * r) \div Cand.monthly_income
        r2 == (1000 * r) % Cand.monthly_income
    IN  1000 * q + q2 > rule.max_percentage
        \/ (1000 * q + q2 = rule.max_percentage /\ r2 > 0)

\* an enabled rule the call finds violated (spec 4.3): no positive income,
\* or the computed percentage above the cap
Violated(rule) == rule.enabled /\ (Cand.monthly_income <= 0 \/ ComputedAbove(rule))

\* the violated rules' positions in the list, in list order
ViolatedRules == SelectSeq([i \in 1..Len(Rules) |-> i], LAMBDA i : Violated(Rules[i]))

IncomeMessage == "El ingreso mensual debe ser mayor a cero"

\* C1: for every country whose rule lookup returns an active rule, the call
\* succeeds if and only if (a) validate_document_format accepts the document
\* for the rule's required_document_type and (b) for every enabled rule of
\* the rule list requested_amount / monthly_income * 100 <= max_percentage,
\* and raises ValidationError in every other case.  The quotient is the exact
\* one, and the calls are those with a positive income.
C1_Admissible ==
    (Done /\ ActiveRuleFound /\ Cand.monthly_income > 0) =>
        (~Out.raised <=>
            /\ DocAccepted
            /\ \A i \in 1..Len(Rules) : Rules[i].enabled => ~ExactlyAbove(Rules[i]))

\* C2: when the lookup answers no rule or an inactive rule, the call succeeds
\* whatever the candidate, and neither the document check nor the loop over
\* the rules runs.
C2_SkipsValidation ==
    (Done /\ ~ActiveRuleFound) => (~Out.raised /\ ~Out.checked /\ Out.log /= <<>>)

C2_Witness ==
    /\ Done /\ call.country_rule /= <<>> /\ ~Rule.is_active /\ ~Out.raised
    /\ ~DocAccepted /\ Cand.monthly_income <= 0
    /\ \E i \in 1..Len(Rules) : Rules[i].enabled

\* C3: when the document is rejected and enabled rules are violated, the
\* errors list is the document_format entry followed by one
\* amount_to_income_ratio entry per violated rule, in rule-list order.
C3_AllFailuresInOrder ==
    (Done /\ ActiveRuleFound /\ ~DocAccepted /\ ViolatedRules /= <<>>) =>
        /\ Out.raised
        /\ Len(ErrorsOf(Out)) = 1 + Len(ViolatedRules)
        /\ ErrorsOf(Out)[1].rule_type = "document_format"
        /\ \A k \in 1..Len(ViolatedRules) :
              LET e    == ErrorsOf(Out)[k + 1]
                  rule == Rules[ViolatedRules[k]]
              IN  /\ e.rule_type = "amount_to_income_ratio"
                  /\ e.max_percentage = rule.max_percentage
                  /\ rule.error_message /= <<>> /\ Cand.monthly_income > 0
                        => e.error_message = rule.error_message[1]

C3_Witness ==
    /\ Done /\ ActiveRuleFound /\ ~DocAccepted /\ Out.raised
    /\ Len(ViolatedRules) = 2
    /\ Rules[1].max_percentage /= Rules[2].max_percentage

\* C4: with an active rule and a positive income, the number of
\* amount_to_income_ratio errors is the number of enabled rules that are
\* violated, whether the other rules pass or fail.
C4_OneErrorPerViolatedRule ==
    (Done /\ ActiveRuleFound /\ Cand.monthly_income > 0) =>
        /\ Len(RatioEntries(Out)) = Len(ViolatedRules)
        /\ \A k \in 1..Len(ViolatedRules) :
              RatioEntries(Out)[k].max_percentage = Rules[ViolatedRules[k]].max_percentage

C4_Witness ==
    /\ Done /\ ActiveRuleFound /\ Cand.monthly_income > 0
    /\ Len(Rules) = 2 /\ Rules[1].enabled /\ Rules[2].enabled
    /\ ViolatedRules = <<2>>
    /\ Len(RatioEntries(Out)) = 1

\* C5: a disabled rule never contributes an error: every
\* amount_to_income_ratio error is the error of an enabled rule, and there are
\* no more of them than enabled rules.
C5_DisabledRulesSkipped ==
    (Done /\ ActiveRuleFound) =>
        /\ Len(RatioEntries(Out)) <= Cardinality({i \in 1..Len(Rules) : Rules[i].enabled})
        /\ \A k \in 1..Len(RatioEntries(Out)) :
              \E i \in 1..Len(Rules) :
                  /\ Rules[i].enabled
                  /\ Rules[i].max_percentage = RatioEntries(Out)[k].max_percentage

C5_Witness ==
    /\ Done /\ ActiveRuleFound /\ ~Out.raised
    /\ Len(Rules) > 0 /\ \A i \in 1..Len(Rules) : ~Rules[i].enabled
    /\ Cand.monthly_income <= 0

\* C6 as stated: with an active rule and monthly_income <= 0 the call raises,
\* and the errors carry the message that the income must be greater than zero.
C6_AsStated ==
    (Done /\ ActiveRuleFound /\ Cand.monthly_income <= 0) =>
        /\ Out.raised
        /\ \E k \in 1..Len(ErrorsOf(Out)) : ErrorsOf(Out)[k].error_message = IncomeMessage

\* C6 amended: with an active rule that has an enabled validation rule and
\* monthly_income <= 0 the call raises, whatever the amount and the document,
\* and every enabled rule contributes an entry with the dedicated message and
\* no requested_percentage.
C6_NonPositiveIncomeFails ==
    (Done /\ ActiveRuleFound /\ Cand.monthly_income <= 0
          /\ \E i \in 1..Len(Rules) : Rules[i].enabled) =>
        /\ Out.raised
        /\ Len(RatioEntries(Out)) = Cardinality({i \in 1..Len(Rules) : Rules[i].enabled})
        /\ \A k \in 1..Len(RatioEntries(Out)) :
              /\ RatioEntries(Out)[k].error_message = IncomeMessage
              /\ RatioEntries(Out)[k].requested_percentage = <<>>

C6_Witness ==
    /\ Done /\ ActiveRuleFound /\ Cand.monthly_income = 0 /\ DocAccepted
    /\ Out.raised
    /\ \E i \in 1..Len(Rules) : Rules[i].enabled /\ Rules[i].error_message /= <<>>

\* requested_amount / monthly_income * 100, in exact arithmetic, is within
\* 0.005 above the cap of the rule (monthly_income > 0)
SlightlyAbove(rule) ==
    /\ ExactlyAbove(rule)
    /\ 200 * (100 * Cand.requested_amount) - 200 * (rule.max_percentage \div 1000) * Cand.monthly_income
          < Cand.monthly_income
    /\ rule.max_percentage % 1000 = 0

\* C7: for monthly_income > 0 an enabled rule is violated exactly when
\* requested_amount / monthly_income * 100 > max_percentage, so that a request
\* exactly at the cap passes, and a violation entry carries the rule's
\* max_percentage, the computed percentage, and the raw amount and income.
C7_ViolatedExactlyAboveCap ==
    (Done /\ ActiveRuleFound /\ Cand.monthly_income > 0) =>
        /\ Len(RatioEntries(Out)) =
              Cardinality({i \in 1..Len(Rules) : Rules[i].enabled /\ ExactlyAbove(Rules[i])})
        /\ \A k \in 1..Len(RatioEntries(Out)) :
              LET e == RatioEntries(Out)[k]
              IN  /\ \E i \in 1..Len(Rules) :
                        /\ Rules[i].enabled /\ ExactlyAbove(Rules[i])
                        /\ e.max_percentage = Rules[i].max_percentage
                  /\ e.requested_percentage /= <<>>
                  /\ e.requested_amount = Cand.requested_amount
                  /\ e.monthly_income = Cand.monthly_income

\* C8: the decision compares the unrounded percentage with max_percentage and
\* only the reported requested_percentage is rounded to 2 decimals: a
\* percentage less than 0.005 above the cap is a violation, reported with the
\* rounded percentage, and a percentage that is not above the cap is no
\* violation even when its rounded value is above the cap.
C8_DecisionOnUnroundedPercentage ==
    (Done /\ ActiveRuleFound /\ Cand.monthly_income > 0) =>
        LET percentage == FMul(FDiv(Cand.requested_amount, Cand.monthly_income), 100)
            reported   == Round2(percentage)
        IN  /\ \A i \in 1..Len(Rules) :
                  (Rules[i].enabled /\ SlightlyAbove(Rules[i])) =>
                      \E k \in 1..Len(RatioEntries(Out)) :
                          /\ RatioEntries(Out)[k].max_percentage = Rules[i].max_percentage
                          /\ RatioEntries(Out)[k].requested_percentage = <<reported>>
            /\ \A k \in 1..Len(RatioEntries(Out)) :
                  /\ RatioEntries(Out)[k].requested_percentage = <<reported>>
                  /\ FGt(percentage, FDiv(RatioEntries(Out)[k].max_percentage, 1000))
            /\ (\A i \in 1..Len(Rules) :
                   Rules[i].enabled => ~FGt(percentage, FDiv(Rules[i].max_percentage, 1000)))
                  => RatioEntries(Out) = <<>>

\* 30.001% against a cap of 30: reported as a violation of 30.0%
C8_Witness ==
    /\ Done /\ ActiveRuleFound /\ Cand.monthly_income > 0 /\ Out.raised
    /\ \E i \in 1..Len(Rules) : Rules[i].enabled /\ SlightlyAbove(Rules[i])
    /\ \E k \in 1..Len(RatioEntries(Out)) :
          10 * RatioEntries(Out)[k].requested_percentage[1] = RatioEntries(Out)[k].max_percentage

\* "; ".join, folded from the right end
RECURSIVE JoinedBy(_, _)
JoinedBy(msgs, sep) ==
    IF Len(msgs) = 1 THEN msgs[1]
    ELSE JoinedBy(SubSeq(msgs, 1, Len(msgs) - 1), sep) \o sep \o msgs[Len(msgs)]

\* C9: the call raises iff an error was accumulated, and then rule_details
\* holds the country, the rule's required_document_type, the non-empty errors
\* list with entries of the two rule types only, and the summary: the entries'
\* error_message values joined by "; " in the order of errors.
C9_RaisesWithRuleDetails ==
    (Done /\ ActiveRuleFound) =>
        /\ Out.raised <=> (~DocAccepted \/ ViolatedRules /= <<>>)
        /\ Out.raised =>
              LET d == Out.rule_details[1]
              IN  /\ Out.message = <<MainMessage>>
                  /\ d.country = Cand.country
                  /\ d.required_document_type = Rule.required_document_type
                  /\ d.errors /= <<>>
                  /\ Len(d.errors) = (IF DocAccepted THEN 0 ELSE 1) + Len(ViolatedRules)
                  /\ \A k \in 1..Len(d.errors) :
                        d.errors[k].rule_type \in {"document_format", "amount_to_income_ratio"}
                  /\ d.summary =
                        JoinedBy([k \in 1..Len(d.errors) |-> d.errors[k].error_message], "; ")
        /\ ~Out.raised => Out.rule_details = <<>>

C9_Witness ==
    /\ Done /\ ActiveRuleFound /\ Out.raised
    /\ Len(Out.rule_details[1].errors) = 3
    /\ Out.rule_details[1].errors[2].error_message /= Out.rule_details[1].errors[3].error_message

\* C10: in create_credit_request a failed validation aborts the creation
\* before any persistence: the validation step that fails ends the call with
\* the error and leaves credit_requests as it was, the call makes no step but
\* its return afterwards, and a step of the call changes credit_requests only
\* by the insert, at its end, of the request of a call whose validation has
\* succeeded.
C10_NoPersistenceOnFailure ==
    [][/\ (call.pc = "validate" /\ call' /= call /\ call'.outcome[1].raised) =>
              (call'.pc = "raised" /\ credit_requests' = credit_requests)
       /\ (call.pc = "raised" /\ call' /= call) =>
              (call' = Idle /\ credit_requests' = credit_requests)
       /\ (call' /= call /\ credit_requests' /= credit_requests) =>
              /\ call.pc = "insert"
              /\ ~call.outcome[1].raised
              /\ Len(credit_requests') = Len(credit_requests) + 1
              /\ SubSeq(credit_requests', 1, Len(credit_requests)) = credit_requests
              /\ LET stored == credit_requests'[Len(credit_requests')]
                 IN  /\ stored.identity_document = call.candidate.identity_document
                     /\ stored.requested_amount = call.candidate.requested_amount]_vars

\* a call whose validation raised with both errors, beside the request the
\* store holds
C10_Witness ==
    /\ call.pc = "raised"
    /\ call.outcome /= <<>>
    /\ call.outcome[1].raised
    /\ Len(call.outcome[1].rule_details[1].errors) = 2
    /\ call.raised = <<ValidationErrorOf(call.outcome[1])>>
    /\ Len(credit_requests) = 1

(***************************************************************************)
(* The rule store and the calls that read it.                              *)
(***************************************************************************)
\* the rules of a country that the store holds as active, without their ids
StoredActive(rules, country) ==
    {[country |-> rules[i].country,
      required_document_type |-> rules[i].required_document_type,
      is_active |-> rules[i].is_active,
      validation_rules |-> rules[i].validation_rules] :
        i \in {i \in 1..Len(rules) : rules[i].country = country /\ rules[i].is_active}}

\* C11: no rule is cached between validations: the read a validation call
\* makes of its country's rule answers a rule the store holds as active at
\* that moment, with every update and delete completed so far applied, and
\* answers no rule when the store holds none.
C11_ReadsCurrentRule ==
    [][(call.pc = "lookup" /\ call'.pc = "validate") =>
          LET current == StoredActive(country_rules, call.candidate.country)
          IN  IF current = {} THEN call'.country_rule = <<>>
              ELSE call'.country_rule /= <<>> /\ call'.country_rule[1] \in current]_vars

\* a call has read the rule of its country in the version that only an
\* update gives it, and the validation has been decided by it
C11_Witness ==
    /\ call.pc \in {"raised", "insert"}
    /\ call.country_rule /= <<>>
    /\ call.country_rule[1].required_document_type = DNI
    /\ call.country_rule[1].validation_rules = StrictRuleList
    /\ call.outcome[1].raised
    /\ admin.op = "update_country_rule"

\* C12: a validation call that interleaves with updates and deletes of its
\* country's rule evaluates the document check and every affordability check
\* against the one version it read at its start: the errors it ends with are
\* the document entry exactly when that version's document type rejects the
\* document, followed by one entry per rule that version's list has violated.
C12_OneVersionPerCall ==
    [][(call.pc = "validate" /\ call'.pc \in {"raised", "insert"}) =>
          /\ call'.country_rule = call.country_rule
          /\ LET errors == ErrorsOf(call'.outcome[1])
                 ratios == RatioEntries(call'.outcome[1])
             IN  IF ~ActiveRuleFound THEN errors = <<>>
                 ELSE /\ (\E k \in 1..Len(errors) : errors[k].rule_type = "document_format")
                            <=> ~DocAccepted
                      /\ Len(errors) = (IF DocAccepted THEN 0 ELSE 1) + Len(ratios)
                      /\ [k \in 1..Len(ratios) |-> ratios[k].max_percentage]
                            = [k \in 1..Len(ViolatedRules) |->
                                   Rules[ViolatedRules[k]].max_percentage]]_vars

\* a call decided by the version it read, CPF with the 30% cap, which accepts
\* the document and the amount, while the store holds by now the updated
\* version, DNI with the 25% cap, which refuses both
C12_Witness ==
    /\ call.pc = "insert"
    /\ call.country_rule /= <<>>
    /\ call.country_rule[1].required_document_type = CPF
    /\ call.country_rule[1].validation_rules = StoredRuleList
    /\ \E r \in StoredActive(country_rules, call.candidate.country) :
          r.required_document_type = DNI /\ r.validation_rules = StrictRuleList
    /\ ~call.outcome[1].raised
    /\ ErrorsOf(call.outcome[1]) = <<>>

\* C13: after any sequence of create, update, soft delete and hard delete
\* calls the store holds at most one rule with is_active = true for each
\* country.
C13_AtMostOneActivePerCountry ==
    \A i, j \in 1..Len(country_rules) :
        (/\ country_rules[i].country = country_rules[j].country
         /\ country_rules[i].is_active
         /\ country_rules[j].is_active) => i = j

\* the create_country_rule calls that get past their lookup in the step
PassedCheck ==
    {data \in CountryRuleCreate :
        admin'.pending = admin.pending (+) SetToBag({[op |-> "create_country_rule",
                                                      data |-> data]})}

\* the step ends a create_country_rule with its ValueError: no call in
\* progress moves, and the call that ended is a create that raised
CreateRaised ==
    /\ admin' /= admin
    /\ admin'.pending = admin.pending
    /\ admin'.op = "create_country_rule"
    /\ admin'.raised /= <<>>

\* C14: create_country_rule for a country that already has an active rule
\* fails with the ValueError that says an active rule already exists, inserts
\* nothing and leaves the rule store unchanged: no call gets past its lookup
\* while the store holds an active rule of its country, and the call that
\* raises found one and leaves the store and the ids as they were.
C14_DuplicateCreateFails ==
    [][/\ \A data \in PassedCheck : StoredActive(country_rules, data.country) = {}
       /\ CreateRaised =>
              /\ StoredActive(country_rules, admin'.country) /= {}
              /\ admin'.raised = <<ActiveRuleExists(admin'.country)>>
              /\ admin'.returned = <<>>
              /\ country_rules' = country_rules
              /\ next_rule_id' = next_rule_id]_vars

\* a create has just failed on the active rule of its country, the only rule
\* the store holds
C14_Witness ==
    /\ admin.op = "create_country_rule"
    /\ admin.raised = <<"Active country rule already exists for Country.BRAZIL">>
    /\ Len(country_rules) = 1
    /\ country_rules[1].country = admin.country
    /\ country_rules[1].is_active
    /\ next_rule_id = 2

(***************************************************************************)
(* The validators.                                                         *)
(***************************************************************************)
Validator == call.validator
Document == call.documents[1]
Rewriting == call.documents[2]
Verdict == call.verdicts[1]
RewritingVerdict == call.verdicts[2]

\* the separators a validator takes out of its input
Stripped(v) ==
    IF v \in {"validate_cpf_brazil", "validate_cedula_colombia"}
    THEN {" ", "-", "."} ELSE {" ", "-"}

\* the document without the characters of chars, in upper case
Plain(document, chars) == Upper(SelectSeq(document, LAMBDA c : c \notin chars))

\* C15 as stated: for each of the six validators the verdict on a document is
\* unchanged by inserting spaces, dashes or dots anywhere and by changing
\* letter case.
C15_AsStated ==
    (Done /\ Plain(Document, {" ", "-", "."}) = Plain(Rewriting, {" ", "-", "."})) =>
        Verdict.ok = RewritingVerdict.ok

\* C15 amended: the verdict, message included, is unchanged by inserting
\* spaces or dashes anywhere and by changing letter case, for each of the six
\* validators, and by inserting dots for Brazil and Colombia only.
C15_SameVerdictUpToSeparators ==
    (Done /\ Plain(Document, Stripped(Validator)) = Plain(Rewriting, Stripped(Validator))) =>
        Verdict = RewritingVerdict

\* a valid DNI and the same DNI with a dash and its letter in lower case
C15_Witness ==
    /\ Done /\ Validator = "validate_dni_spain"
    /\ Document = DNI_VALID
    /\ Rewriting = <<"1", "2", "3", "4", "5", "6", "7", "8", "-", "z">>
    /\ Verdict.ok /\ RewritingVerdict.ok

\* the document as the claims call it normalized: without spaces and dashes
\* (and dots, where the validator strips them), in upper case
Normalized(k) == Plain(call.documents[k], Stripped(Validator))

Calls == 1..Len(call.verdicts)

DniTable ==
    <<"T", "R", "W", "A", "G", "M", "Y", "F", "P", "D", "X", "B",
      "N", "J", "Z", "S", "Q", "V", "H", "L", "C", "K", "E">>

DniForm(s) ==
    /\ Len(s) = 9
    /\ \A i \in 1..8 : s[i] \in DigitChars
    /\ s[9] \in AsciiUpper

\* the number the digits s[1..n] write
RECURSIVE NumberOf(_, _)
NumberOf(s, n) == IF n = 0 THEN 0 ELSE 10 * NumberOf(s, n - 1) + DigitVal(s[n])

DniLetter(s) == DniTable[(NumberOf(s, 8) % 23) + 1]

DniFormatMessage == "El DNI debe tener 8 dígitos seguidos de una letra (ej: 12345678Z)"

\* C16: validate_dni_spain accepts a normalized document exactly when it is
\* 8 digits followed by one letter and that letter is the one the table
\* TRWAGMYFPDXBNJZSQVHLCKE has at index (the 8-digit number mod 23); a format
\* mismatch and a letter mismatch are rejected with two different messages.
C16_DniAcceptedExactly ==
    Validator = "validate_dni_spain" =>
        \A k \in Calls :
            LET s == Normalized(k)
                verdict == call.verdicts[k]
            IN  /\ verdict.ok <=> (DniForm(s) /\ s[9] = DniLetter(s))
                /\ ~DniForm(s) => verdict.err = <<DniFormatMessage>>
                /\ (DniForm(s) /\ s[9] /= DniLetter(s)) =>
                       (verdict.err /= <<>> /\ verdict.err /= <<DniFormatMessage>>)

AllDigits(s, n) == Len(s) = n /\ \A i \in 1..n : s[i] \in DigitChars

\* the sum of the first n digits of s under the weights first, first - 1, ...
RECURSIVE Weighted(_, _, _)
Weighted(s, n, first) ==
    IF n = 0 THEN 0 ELSE Weighted(s, n - 1, first) + DigitVal(s[n]) * (first - n + 1)

\* 0 if the sum mod 11 is < 2, else 11 - the sum mod 11
Check(sum) == IF sum % 11 < 2 THEN 0 ELSE 11 - (sum % 11)

\* C17: validate_nif_portugal accepts a normalized document exactly when it
\* is 9 digits and the 9th digit is the check digit of the first 8 digits
\* under the weights 9..2.
C17_NifAcceptedExactly ==
    Validator = "validate_nif_portugal" =>
        \A k \in Calls :
            LET s == Normalized(k)
            IN  call.verdicts[k].ok <=>
                    (AllDigits(s, 9) /\ DigitVal(s[9]) = Check(Weighted(s, 8, 9)))

\* the CPF as validate_cpf_brazil normalizes it: without dots, dashes and
\* white space
CpfNormalized(k) == Plain(call.documents[k], {".", "-"} \cup Whitespace)

CpfFirstCheck(s) == Check(Weighted(s, 9, 10))
CpfSecondCheck(s) == Check(Weighted(s, 9, 11) + 2 * CpfFirstCheck(s))

\* C18: validate_cpf_brazil accepts a normalized document exactly when it is
\* 11 digits, not all identical, whose 10th digit is the check digit of the
\* first 9 under the weights 10..2 and whose 11th digit is the check digit of
\* the first 9 followed by the first check digit under the weights 11..2.
C18_CpfAcceptedExactly ==
    Validator = "validate_cpf_brazil" =>
        \A k \in Calls :
            LET s == CpfNormalized(k)
            IN  call.verdicts[k].ok <=>
                    /\ AllDigits(s, 11)
                    /\ \E i \in 2..11 : s[i] /= s[1]
                    /\ DigitVal(s[10]) = CpfFirstCheck(s)
                    /\ DigitVal(s[11]) = CpfSecondCheck(s)

\* a CPF whose two check digits the remainder rule makes 0, accepted as it is
\* and with a dot in it
C18_Witness ==
    /\ Done /\ Validator = "validate_cpf_brazil"
    /\ Document = CPF_CHECKS_ZERO
    /\ \E i \in 1..Len(Rewriting) : Rewriting[i] = "."
    /\ Verdict.ok /\ RewritingVerdict.ok

FirstDigitMessage == "El primer dígito verificador del CPF no es válido"
SecondDigitMessage == "El segundo dígito verificador del CPF no es válido"

\* the CPF of call k reaches the check digits: 11 digits, not all identical
CpfChecked(k) ==
    /\ Validator = "validate_cpf_brazil"
    /\ AllDigits(CpfNormalized(k), 11)
    /\ \E i \in 2..11 : CpfNormalized(k)[i] /= CpfNormalized(k)[1]

FirstDigitWrong(k) == DigitVal(CpfNormalized(k)[10]) /= CpfFirstCheck(CpfNormalized(k))
SecondDigitWrong(k) == DigitVal(CpfNormalized(k)[11]) /= CpfSecondCheck(CpfNormalized(k))

\* C19 as stated: a wrong first check digit is reported as a first-check-digit
\* error and a wrong second check digit as a second-check-digit error,
\* whatever the state of the other check digit.
C19_AsStated ==
    \A k \in Calls :
        CpfChecked(k) =>
            /\ FirstDigitWrong(k) => call.verdicts[k].err = <<FirstDigitMessage>>
            /\ SecondDigitWrong(k) => call.verdicts[k].err = <<SecondDigitMessage>>

\* C19 amended: a wrong first check digit is reported as a first-check-digit
\* error whatever the second is; a wrong second check digit is reported as a
\* second-check-digit error when the first is right, and is not reported
\* when the first is wrong too.
C19_FirstFailingDigitReported ==
    \A k \in Calls :
        CpfChecked(k) =>
            /\ FirstDigitWrong(k) => call.verdicts[k] = Invalid(FirstDigitMessage)
            /\ (~FirstDigitWrong(k) /\ SecondDigitWrong(k)) =>
                   call.verdicts[k] = Invalid(SecondDigitMessage)

\* a CPF with both check digits wrong, rejected for the first
C19_Witness ==
    /\ Done /\ Document = CPF_WRONG_BOTH
    /\ CpfChecked(1) /\ FirstDigitWrong(1) /\ SecondDigitWrong(1)
    /\ Verdict = Invalid(FirstDigitMessage)

\* 4 letters, 6 digits, H or M, 5 letters, one alphanumeric, one digit
CurpForm(s) ==
    /\ Len(s) = 18
    /\ \A i \in 1..4 : s[i] \in AsciiUpper
    /\ \A i \in 5..10 : s[i] \in DigitChars
    /\ s[11] \in {"H", "M"}
    /\ \A i \in 12..16 : s[i] \in AsciiUpper
    /\ s[17] \in AsciiUpper \cup DigitChars
    /\ s[18] \in DigitChars

CodiceForm(s) == Len(s) = 16 /\ \A i \in 1..16 : s[i] \in AsciiUpper \cup DigitChars

CedulaForm(s) == Len(s) \in {8, 9, 10} /\ \A i \in 1..Len(s) : s[i] \in DigitChars

\* C20: the three format-only validators accept exactly the normalized
\* strings of their form: Mexico 18 characters (4 letters, 6 digits, H or M,
\* 5 letters, one alphanumeric, one digit), Italy 16 alphanumeric characters,
\* Colombia 8 to 10 digits.
C20_FormatOnlyAcceptedExactly ==
    \A k \in Calls :
        /\ Validator = "validate_curp_mexico" =>
               (call.verdicts[k].ok <=> CurpForm(Normalized(k)))
        /\ Validator = "validate_codice_fiscale_italy" =>
               (call.verdicts[k].ok <=> CodiceForm(Normalized(k)))
        /\ Validator = "validate_cedula_colombia" =>
               (call.verdicts[k].ok <=> CedulaForm(Normalized(k)))

(***************************************************************************)
(* The dispatcher.                                                         *)
(***************************************************************************)
FormatVerdict == call.returned[1]
DeclaredType == Strip(Upper(call.document_type))
DocumentClean == Strip(call.document)
IsBlank(document) == \A i \in 1..Len(document) : document[i] \in Whitespace

\* the validator the table registers for the country
OwnValidator(country) == validators[CHOOSE i \in 1..Len(validators) : validators[i].c = country].v

\* required_document_type of the default rule of each country
DefaultDocumentType(country) ==
    CASE country = SPAIN    -> DNI
      [] country = PORTUGAL -> NIF
      [] country = ITALY    -> CODICE_FISCALE_LABEL
      [] country = MEXICO   -> CURP
      [] country = COLOMBIA -> CEDULA_LABEL
      [] country = BRAZIL   -> CPF

DefaultTypeDeclared == DeclaredType = Upper(DefaultDocumentType(call.country))

\* C21 as stated: for each of the six countries, when the declared type is the
\* country's default document type, compared after trimming and uppercasing,
\* validate_document_format returns exactly the result of that country's own
\* validator, and the country's canonical example document is accepted.
C21_AsStated ==
    (Done /\ DefaultTypeDeclared) =>
        /\ FormatVerdict = ApplyValidator(OwnValidator(call.country), DocumentClean)
        /\ DocumentClean = CleanExample(call.country) => FormatVerdict = Valid

\* C21 amended: the same, for a document that is not empty or whitespace-only;
\* the validator is given the trimmed document.
C21_DefaultTypeSelectsOwnValidator ==
    (Done /\ DefaultTypeDeclared /\ ~IsBlank(call.document)) =>
        /\ FormatVerdict = ApplyValidator(OwnValidator(call.country), DocumentClean)
        /\ DocumentClean = CleanExample(call.country) => FormatVerdict = Valid

\* Italy's label in lower case and padded, on the padded example of Italy
C21_Witness ==
    /\ Done /\ call.country = ITALY
    /\ call.document_type = <<" ">> \o Lower(CODICE_FISCALE_LABEL)
    /\ call.document = CODICE_VALID \o <<" ">>
    /\ FormatVerdict = Valid

\* the validators of the table entries of the country
ValidatorsOf(country) == {validators[i].v : i \in {j \in 1..Len(validators) : validators[j].c = country}}

\* the validator that judged the document of the call
Selected == SelectedValidator(call.country, call.document_type)

\* C22: validate_document_format never judges a document with a validator
\* registered for another country than the request's: the validator it
\* selects, by exact match or by the substring fallback, belongs to a table
\* entry of the same country, and otherwise the generic length policy is
\* applied.
C22_OwnCountryValidatorOnly ==
    (Done /\ ~IsBlank(call.document)) =>
        Selected \in ValidatorsOf(call.country) \cup {"generic"}

\* the call returned a tuple (is_valid, error_message), the message present
\* exactly when is_valid is false
ReturnedVerdict ==
    /\ Len(call.returned) = 1
    /\ FormatVerdict.ok \in BOOLEAN
    /\ FormatVerdict.ok = (FormatVerdict.err = <<>>)

\* C23 as stated: when no validator matches the (country, declared type) pair,
\* validate_document_format applies the generic policy and never raises: a
\* non-empty document of fewer than 3 characters is rejected, one of more than
\* 50 characters is rejected, and every other non-empty document is accepted.
C23_AsStated ==
    (Done /\ Selected = "generic" /\ call.document /= <<>>) =>
        /\ ReturnedVerdict
        /\ FormatVerdict.ok = (Len(call.document) >= 3 /\ Len(call.document) <= 50)

\* C23 amended: the same, the lengths being those of the trimmed document and
\* the document not being whitespace-only.
C23_GenericPolicyOnTrimmedDocument ==
    (Done /\ Selected = "generic" /\ ~IsBlank(call.document)) =>
        /\ ReturnedVerdict
        /\ FormatVerdict.ok = (Len(DocumentClean) >= 3 /\ Len(DocumentClean) <= 50)

\* a document of 51 characters under a label of no table entry
C23_Witness ==
    /\ Done /\ call.country = SPAIN /\ call.document_type = UNKNOWN_LABEL
    /\ call.document = FIFTY_ONE_CHARS
    /\ Selected = "generic"
    /\ ~FormatVerdict.ok

\* C24: validate_document_format rejects an empty or whitespace-only document
\* with the 'document required' error for every country and every declared
\* type, before any country validator or generic length check is consulted.
C24_BlankDocumentRequired ==
    (Done /\ IsBlank(call.document)) =>
        FormatVerdict = Invalid("El documento de identidad es requerido")

\* a whitespace-only document under the country's own label
C24_Witness ==
    /\ Done /\ call.country = SPAIN /\ call.document_type = DNI
    /\ call.document = BLANK
    /\ FormatVerdict = Invalid("El documento de identidad es requerido")

(***************************************************************************)
(* validate_country_rules called again.                                    *)
(***************************************************************************)
\* C26: validate_country_rules performs no writes: whether it succeeds or
\* raises, the country rule store and the credit request store are the same
\* after the call as before it.
C26_ValidationWritesNothing ==
    [][(call.pc = "called" /\ Len(call'.outcomes) = Len(call.outcomes) + 1) =>
          /\ country_rules' = country_rules
          /\ credit_requests' = credit_requests]_vars

\* a call that raised and a call that succeeded, beside a store that holds a
\* rule
C26_Witness ==
    /\ Done /\ country_rules /= <<>>
    /\ call.outcomes[1].raised /\ ~call.outcomes[2].raised /\ call.outcomes[2].checked

(***************************************************************************)
(* The endpoint.                                                           *)
(***************************************************************************)
Responded == call.pc = "responded"
Response == call.response[1]

\* what validate_country_rules answers for the candidate of the call
CandidateOutcome ==
    validate_country_rules(get_by_country(country_rules, call.candidate.country),
                           call.candidate.country, call.candidate.identity_document,
                           call.candidate.requested_amount, call.candidate.monthly_income)

BadRequest(message, rule_details) ==
    [status_code |-> 400, detail |-> [message |-> message, rule_details |-> rule_details]]

\* C27: the create_request endpoint answers a failed country-rule validation
\* with a 400 response whose body carries the message and the rule_details of
\* the ValidationError, and answers any other exception raised during
\* creation with a 500 response.
C27_ValidationFailure400OtherExceptions500 ==
    Responded =>
        /\ (call.service = <<>> /\ CandidateOutcome.raised) =>
               Response = BadRequest(CandidateOutcome.message[1], CandidateOutcome.rule_details)
        /\ (call.service /= <<>> /\ call.service[1].type = "ValidationError") =>
               Response = BadRequest(call.service[1].message, call.service[1].rule_details)
        /\ (call.service /= <<>> /\ call.service[1].type \notin {"ValidationError", "none"}) =>
               Response.status_code = 500

(***************************************************************************)
(* The soft delete.                                                        *)
(***************************************************************************)
\* the step is the insert of a create_country_rule
InsertStep ==
    /\ admin'.op = "create_country_rule" /\ admin'.raised = <<>>
    /\ BagCardinality(admin'.pending) = BagCardinality(admin.pending) - 1
    /\ Len(country_rules') = Len(country_rules) + 1

\* the step is the write of an update_country_rule
UpdateStep ==
    \E id \in RuleIds :
        admin'.pending = admin.pending (+) SetToBag({[op |-> "update_country_rule", id |-> id]})

\* the step is a delete_country_rule that changed the store: of the steps
\* that write to country_rules, the one that leaves the calls in progress as
\* they are and ends a delete_country_rule
DeleteStep ==
    /\ country_rules' /= country_rules
    /\ admin'.pending = admin.pending
    /\ admin'.op = "delete_country_rule"

\* the positions of the rules the step deactivated
Deactivated == {i \in 1..Len(country_rules) : country_rules[i].is_active /\ ~country_rules'[i].is_active}

\* C28: delete_country_rule never removes the rule record: it only sets
\* is_active to false, so the rule stays retrievable by id; from then on the
\* lookup by country returns no rule and every validation for that country
\* succeeds, until a rule for the country is created or reactivated.
C28_SoftDeleteHidesCountry ==
    [][/\ DeleteStep =>
              /\ Len(country_rules') = Len(country_rules)
              /\ \A i \in 1..Len(country_rules) :
                    country_rules'[i] = [country_rules[i] EXCEPT !.is_active = i \notin Deactivated /\ @]
              /\ \A i \in Deactivated :
                    get_by_country(country_rules', country_rules[i].country) = <<>>
       /\ \A c \in Country :
              (get_by_country(country_rules, c) = <<>> /\ get_by_country(country_rules', c) /= <<>>) =>
                  InsertStep \/ UpdateStep
       /\ (call.pc = "validate" /\ call.country_rule = <<>> /\ call'.outcome /= <<>>) =>
              ~call'.outcome[1].raised]_vars

(***************************************************************************)
(* Creates in progress together.                                           *)
(***************************************************************************)
\* the rule the insert of the step adds
CreatedRule == country_rules'[Len(country_rules')]

\* C29: two create_country_rule calls for the same country that interleave,
\* each running its existence check before the other inserts, cannot both
\* succeed: at most one of them inserts an active rule and the other fails
\* with the duplicate error, so that no call inserts an active rule for a
\* country of which the store holds an active rule by then.
C29_InterleavedCreatesNotBothSucceed ==
    [][(InsertStep /\ CreatedRule.is_active) =>
          StoredActive(country_rules, CreatedRule.country) = {}]_vars

(***************************************************************************)
(* The default rules.                                                      *)
(***************************************************************************)
AtStartup == call.stores[1]

ActiveCountries(rules) == {rules[i].country : i \in {j \in 1..Len(rules) : rules[j].is_active}}

\* the runs that make the step
Stepping == {r \in DOMAIN call.runs : call'.runs[r] /= call.runs[r]}

\* the country whose default rule the r-th run is at
CountryOf(r) == default_rules[call.runs[r].rule].country

\* C30: initialize_default_country_rules creates a default rule only for a
\* country that has no active rule and never modifies an existing rule: run
\* on a store where every one of the six countries has an active rule it
\* changes nothing, and running it twice in a row leaves the store as after
\* the first run.  The lookups of a run change nothing, its insert adds the
\* default rule of a country that has no active rule, with a new id, and
\* leaves the rules of the store as they are.
C30_DefaultsOnlyWhereNoActiveRule ==
    [][\A r \in Stepping :
          LET run == call.runs[r]
          IN  /\ run.pc \in {"lookup", "check"} => country_rules' = country_rules
              /\ run.pc = "insert" =>
                     /\ CountryOf(r) \notin ActiveCountries(country_rules)
                     /\ country_rules' = Append(country_rules,
                                                Inserted(next_rule_id, default_rules[run.rule]))
                     /\ next_rule_id \notin RuleIds
              /\ ActiveCountries(AtStartup) = Country => country_rules' = country_rules
              /\ call'.runs[r].began = "after" =>
                     /\ country_rules' = country_rules
                     /\ country_rules = call.stores[2]]_vars

====
